---------------------------- MODULE Spec2Model ----------------------------
(***************************************************************************)
(* A model of the article ingestion pipeline (zitch8/web-scraper): the     *)
(* document store (MongoDB.save), the three-lane work queue (RedisManager, *)
(* Publisher), the consumer loop (Consumer.run), the fetch fallback chain  *)
(* (ScraperManager) and the static fetcher's retry loop                    *)
(* (BeautifulSoupScraper.scrape).                                          *)
(*                                                                         *)
(* Each component has its own specification over its own variables; the    *)
(* variables of the other components keep their initial value.             *)
(***************************************************************************)
EXTENDS Integers, Sequences, FiniteSets, TLC

VARIABLES
    collection,   \* MongoDB collection: the stored documents, in insertion order
    saveLog,      \* history: the save() calls made by the single client
    wpc,          \* racing workers: position of each worker inside save()
    wart,         \* racing workers: the article each worker is saving
    wret,         \* racing workers: what the worker's last save() returned ("True", "False")
    issued,       \* history: the articles save() was called with by a worker
    acked,        \* history: the url_hashes for which a worker's save() returned True
    ncalls,       \* history: number of save() calls started by the workers
    lanes,        \* Redis: the three queue lists, leftmost entry first
    redisUp,      \* Redis: whether the server answers
    enq,          \* history: per lane, the items that entered the list, in order of arrival
    deq,          \* history: per lane, the items pop returned, in order
    lastOp,       \* history: the last queue operation, its arguments and what it returned
    npush,        \* history: number of enqueue requests made
    running,      \* Consumer.running
    lpc,          \* Consumer.run: where the loop is
    max_articles, \* Consumer.run: the limit in force (0 or None: unlimited)
    stats,        \* Consumer.stats: total_processed, success, failed
    batchLeft,    \* Consumer.run: iterations left of the batch's for loop
    processed,    \* Consumer.run: the cycle's `processed` flag
    closed,       \* whether ScraperManager.close has been called
    exc,          \* the exception that left Consumer.run, if one did
    stopRequested,\* history: stop() has been called
    interrupted,  \* history: a KeyboardInterrupt reached the loop
    lastDeq,      \* history: the loop's last dequeue: lanes before it, what it gave
    settings,         \* ScraperManager.settings
    selenium_scraper, \* ScraperManager.selenium_scraper: None, or the scraper and its driver
    fpc,              \* scrape_article: where the call is
    attempt,          \* BeautifulSoupScraper.scrape: iterations of the for loop done
    sleeps,           \* history: the delays scrape slept, in order
    responses,        \* history: what session.get gave on each attempt
    calls,            \* history: the fetchers scrape_article invoked, in order
    static,           \* history: what _try_beautifulsoup returned
    rendering,        \* history: what _try_selenium returned, and of what page
    outcome,          \* what scrape_article returned
    scraped,          \* a ScrapedMetadata instance
    valid,            \* what scraped.is_valid() returned ("True", "False")
    queue_manager,    \* Consumer.queue_manager: the queue client the consumer was given
    technical_default,\* the TechnicalMetadata instance that is Article's field default
    inflight,         \* _process_article: the Article being processed, if any
    batch_size,       \* Consumer.settings.batch_size
    dequeued,         \* history: the number of items the current cycle has dequeued
    plog,             \* history: the items handed to _process_article and what became of them
    given,            \* a function of the program called on its own: the arguments
    returned          \* a function of the program called on its own: what it returned

storeVars == <<collection, saveLog>>
raceVars  == <<wpc, wart, wret, issued, acked, ncalls>>
queueVars == <<lanes, redisUp, enq, deq, lastOp, npush>>
loopVars == <<running, lpc, max_articles, stats, batchLeft, processed, closed,
              exc, stopRequested, interrupted, lastDeq>>
fetchVars == <<settings, selenium_scraper, fpc, attempt, sleeps, responses, calls,
               static, rendering, outcome>>
metaVars == <<scraped, valid>>
procVars == <<queue_manager, technical_default, inflight, batch_size, dequeued, plog>>
pureVars == <<given, returned>>
vars == <<storeVars, raceVars, queueVars, loopVars, fetchVars, metaVars, procVars,
          pureVars>>

None == "None"

-----------------------------------------------------------------------------
(* Bounds of the model                                                     *)

MaxSaves == 2        \* save() calls of the single client
NumWorkers == 2      \* workers racing on the store
MaxRaceCalls == 3    \* save() calls started by all workers together
MaxPushes == 2       \* enqueue requests (push, push_batch, publish_*) in one run
MaxRetriesBound == 3 \* largest max_retries the static fetcher is configured with
MaxMarks == 2

-----------------------------------------------------------------------------
(* Article and its stored form                                             *)

Hashes == {"h1", "h2"}
Statuses == {"success", "failed"}
MetaValues == {None, "Example"}

\* Article (the fields save() reads): id, technical_metadata.url_hash,
\* technical_metadata.status and the optional scraped_metadata.
Articles ==
    [id : {"a1"}, url_hash : Hashes, status : Statuses, scraped_metadata : MetaValues]

\* Article.to_dict: the scraped_metadata key is present only when the
\* article has scraped metadata; technical_metadata is always present and
\* carries every technical field of the article.
to_dict(article) ==
    LET technical ==
            [k \in DOMAIN article \ {"id", "scraped_metadata"} |-> article[k]]
    IN IF article.scraped_metadata # None
       THEN [id |-> article.id,
             scraped_metadata |-> article.scraped_metadata,
             technical_metadata |-> technical]
       ELSE [id |-> article.id,
             technical_metadata |-> technical]

-----------------------------------------------------------------------------
(* The collection and its unique index                                     *)

\* _create_indexes: the index on technical_metadata.url_hash is unique.
url_hash_unique_off == FALSE
url_hash_unique == TRUE

\* positions of the documents with a given url_hash
Matching(coll, h) ==
    {i \in 1..Len(coll) : coll[i].technical_metadata.url_hash = h}

Min(S) == CHOOSE x \in S : \A y \in S : x <= y

\* insert_one raises DuplicateKeyError when the unique index has the key
DuplicateKey(coll, doc) ==
    url_hash_unique /\ Matching(coll, doc.technical_metadata.url_hash) # {}

insert_one(coll, doc) == Append(coll, doc)

\* a $set-style update that keeps the keys the new document lacks
replace_one_merge(coll, h, doc) ==
    IF Matching(coll, h) = {} THEN coll
    ELSE LET i == Min(Matching(coll, h))
             old == coll[i]
         IN [coll EXCEPT ![i] =
                [k \in DOMAIN old \cup DOMAIN doc |->
                    IF k \in DOMAIN doc THEN doc[k] ELSE old[k]]]

\* replace_one(filter on url_hash, doc): the first matching document is
\* replaced in full; nothing happens when no document matches (no upsert).
replace_one(coll, h, doc) ==
    IF Matching(coll, h) = {} THEN coll
    ELSE [coll EXCEPT ![Min(Matching(coll, h))] = doc]

\* MongoDB._update_duplicate: returns True whether or not a document was
\* modified, False on a PyMongoError.
_update_duplicate(coll, article, fail) ==
    IF fail = "replace"
    THEN [coll |-> coll, ret |-> FALSE]
    ELSE [coll |-> replace_one(coll, article.url_hash, to_dict(article)),
          ret |-> TRUE]

\* MongoDB.save as one call of a single client. fail names the store
\* operation that raises PyMongoError in this call: "none", "insert" (the
\* insert_one) or "replace" (the replace_one, when it is reached).
FailPoints == {"none", "insert", "replace"}

save(coll, article, fail) ==
    IF fail = "insert"
    THEN [coll |-> coll, ret |-> FALSE]
    ELSE IF DuplicateKey(coll, to_dict(article))
         THEN _update_duplicate(coll, article, fail)
         ELSE [coll |-> insert_one(coll, to_dict(article)), ret |-> TRUE]


-----------------------------------------------------------------------------
(* Work items and the queue client (RedisManager)                          *)

\* ArticleMetadata. A url is kept as its leading scheme and the rest, which
\* is all that validate reads of it.
ValidItems ==
    { [id |-> "a1", url |-> <<"https://", "example.com">>, priority |-> "high"],
      [id |-> "a2", url |-> <<"http://", "example.com/2">>, priority |-> "high"],
      [id |-> "a3", url |-> <<"https://", "example.com/3">>, priority |-> "medium"],
      [id |-> "a4", url |-> <<"https://", "example.com/4">>, priority |-> "low"] }

InvalidItems ==
    { [id |-> "b1", url |-> <<"ftp://", "example.com">>, priority |-> "high"],
      [id |-> "b2", url |-> <<"https://", "example.com/5">>, priority |-> "urgent"],
      [id |-> "b3", url |-> <<"https://", "example.com/6">>, priority |-> "HIGH"] }

Items == ValidItems \cup InvalidItems

\* str.lower on the priorities, schemes and hosts in use
Lower(str) ==
    CASE str = "HIGH" -> "high"
      [] str = "HTTPS" -> "https"
      [] str = "Example.COM" -> "example.com"
      [] OTHER -> str

\* ArticleMetadata.validate: True, or ValueError (here FALSE) when the url
\* does not start with http:// or https:// or the priority is not one of
\* high, medium, low. (id, source and category are strings in every item.)
validate(item) ==
    /\ item.url[1] \in {"http://", "https://"}
    /\ item.priority \in {"high", "medium", "low"}

\* RedisConfig: the three list keys
queue_high == "articles:queue:high"
queue_medium == "articles:queue:medium"
queue_low == "articles:queue:low"
QueueNames == {queue_high, queue_medium, queue_low}

\* RedisConfig.get_queue_name: priority_map.get(priority.lower(), queue_low).
\* It is defined on strings only: priority = None has no lower() and the
\* call raises AttributeError (see pop).
get_queue_name(priority) ==
    CASE Lower(priority) = "high" -> queue_high
      [] Lower(priority) = "medium" -> queue_medium
      [] OTHER -> queue_low

\* json.dumps(asdict(item)) and json.loads on what it produced
dumps(item) == <<"json", item>>
loads(entry) == entry[2]

\* an entry that is not the JSON text of an object, and whether json.loads
\* accepts an entry or raises JSONDecodeError
Undecodable == <<"text", "{not json">>
decodable(entry) == entry[1] = "json"

\* The attributes RedisManager.__init__ sets on the instance. push,
\* get_queue_length and the clear methods read self.config, which is
\* not among them: the read raises AttributeError.
RedisManagerAttrs_with_config == {"settings", "client", "config"}
RedisManagerAttrs == {"settings", "client"}

\* client.lpush: the entry goes to the left end of the list
lpush(list, entry) == <<entry>> \o list

\* RedisManager.push: [lanes, ret, calls], calls being the number of
\* commands sent to the server. The AttributeError of self.config is
\* caught by the method's `except Exception` and gives False, as does a
\* RedisError of lpush; otherwise the entry is inserted at the left of the
\* list get_queue_name selects and the result is True.
push(lns, item, up) ==
    IF "config" \notin RedisManagerAttrs
    THEN [lanes |-> lns, ret |-> FALSE, calls |-> 0]
    ELSE IF ~up
         THEN [lanes |-> lns, ret |-> FALSE, calls |-> 1]
         ELSE [lanes |-> [lns EXCEPT ![get_queue_name(item.priority)] =
                             lpush(@, dumps(item))],
               ret |-> TRUE, calls |-> 1]

\* RedisManager.push_batch: push for each article in order; the number of
\* successes is the result.
RECURSIVE push_batch(_, _, _)
push_batch(lns, articles, up) ==
    IF articles = <<>>
    THEN [lanes |-> lns, success |-> 0]
    ELSE LET first == push(lns, Head(articles), up)
             rest == push_batch(first.lanes, Tail(articles), up)
         IN [lanes |-> rest.lanes,
             success |-> rest.success + (IF first.ret THEN 1 ELSE 0)]

\* what a call gives back: a value, None, or an exception that leaves it
Got(value) == [kind |-> "value", value |-> value]
Nothing == [kind |-> "None"]
Raised(error) == [kind |-> "raise", error |-> error]

\* client.rpop / client.brpop on a list that is not empty: the entry at the
\* right end is removed and returned
rpop_from_left(list) == [value |-> Head(list), rest |-> Tail(list)]
rpop(list) ==
    [value |-> list[Len(list)], rest |-> SubSeq(list, 1, Len(list) - 1)]

\* RedisManager._pop_from_queue with RedisManager.pop around it:
\* [lanes, ret, calls], calls being the number of commands sent to the
\* server (pop_uncaught: were the RedisError not caught). priority = None makes get_queue_name raise AttributeError,
\* which pop does not catch. A RedisError gives None. rpop (timeout = 0)
\* and brpop (timeout > 0) both remove the rightmost entry; on an empty
\* list rpop gives None at once and brpop gives None when the timeout ends.
\* The entry removed goes to json.loads, whose JSONDecodeError pop catches
\* and answers with None.
pop_uncaught(lns, priority, timeout, up) ==
    IF priority = None
    THEN [lanes |-> lns, ret |-> Raised("AttributeError"), calls |-> 0]
    ELSE LET q == get_queue_name(priority) IN
         IF ~up
         THEN [lanes |-> lns, ret |-> Raised("RedisError"), calls |-> 1]
         ELSE IF lns[q] = <<>>
         THEN [lanes |-> lns, ret |-> Nothing, calls |-> 1]
         ELSE [lanes |-> [lns EXCEPT ![q] = rpop(@).rest],
               ret |-> IF decodable(rpop(lns[q]).value)
                       THEN Got(loads(rpop(lns[q]).value))
                       ELSE Nothing,
               calls |-> 1]
pop(lns, priority, timeout, up) ==
    IF priority = None
    THEN [lanes |-> lns, ret |-> Raised("AttributeError"), calls |-> 0]
    ELSE LET q == get_queue_name(priority) IN
         IF ~up \/ lns[q] = <<>>
         THEN [lanes |-> lns, ret |-> Nothing, calls |-> 1]
         ELSE [lanes |-> [lns EXCEPT ![q] = rpop(@).rest],
               ret |-> IF decodable(rpop(lns[q]).value)
                       THEN Got(loads(rpop(lns[q]).value))
                       ELSE Nothing,
               calls |-> 1]

-----------------------------------------------------------------------------
(* Publisher                                                               *)

\* The attributes Publisher.__init__ sets. publish_batch and
\* publish_from_file read self.config: AttributeError, not caught.
PublisherAttrs == {"queue_manager", "settings", "stats"}

\* Publisher.load_articles_from_json: the records that validate, in order
\* (a ValueError of validate is caught and the record skipped).
load_articles_from_json(records) == SelectSeq(records, validate)

\* Publisher.publish_single: the result of push
publish_single(lns, item, up) == push(lns, item, up)

\* Publisher.publish_batch: [lanes, ret]
publish_batch(lns, articles, up) ==
    IF "config" \notin PublisherAttrs
    THEN [lanes |-> lns, ret |-> "AttributeError"]
    ELSE [lanes |-> push_batch(lns, articles, up).lanes, ret |-> "stats"]

\* Publisher.publish_from_file on a file holding `records`: [lanes, ret]
publish_from_file(lns, records, up) ==
    IF "config" \notin PublisherAttrs
    THEN [lanes |-> lns, ret |-> "AttributeError"]
    ELSE IF load_articles_from_json(records) = <<>>
         THEN [lanes |-> lns, ret |-> "stats"]
         ELSE publish_batch(lns, load_articles_from_json(records), up)

-----------------------------------------------------------------------------
(* Scrapers: BeautifulSoupScraper, SeleniumScraper, MetadataExtractor and  *)
(* ScraperManager. The settings object is taken to offer every attribute   *)
(* path the scrapers read from it.                                         *)

\* RequestsConfig and SeleniumConfig defaults
RequestsConfig == [timeout |-> 10, max_retries |-> 3, retry_delay |-> 2]
SeleniumConfig == [timeout |-> 30, enabled_fallback |-> TRUE, required_elements |-> <<>>]
ScraperConfig == [request |-> RequestsConfig, selenium |-> SeleniumConfig]

\* Python truthiness of an Optional[str]
Truthy(s) == s \notin {None, ""}

\* str.strip on the texts of the model
Strip(s) ==
    CASE s \in {" ", "  "} -> ""
      [] s = " Example " -> "Example"
      [] s = " a " -> "a"
      [] OTHER -> s

\* A parsed document, by what the scrapers look at: the text of <title>
\* and the content of <meta property="og:title">, <meta name="title"> and
\* <meta name="twitter:title">; None where the element is absent.
Soup(title, og_title, name_title, twitter_title) ==
    [title |-> title, og_title |-> og_title, name_title |-> name_title,
     twitter_title |-> twitter_title]

Docs ==
    { Soup("Example", None, None, None),
      Soup(" ", None, None, None),
      Soup(None, "Example", None, None),
      Soup(None, None, "Example", None),
      Soup(None, None, None, "Example"),
      Soup(None, None, None, None) }

\* ScraperInterface._has_title: <title> with a string, or og:title or
\* meta name=title with a content
_has_title(soup) ==
    \/ Truthy(soup.title)
    \/ Truthy(soup.og_title)
    \/ Truthy(soup.name_title)

\* ScraperInterface.validate_soup
validate_soup(soup, required_elements) ==
    \A k \in 1..Len(required_elements) :
        required_elements[k] = "title" => _has_title(soup)

\* soup.find: the element of a document, None where the document has none
\* (a document is a record of its elements; Soup lists the title elements)
Find(soup, element) ==
    IF element \in DOMAIN soup THEN soup[element] ELSE None

\* the element a meta name or property stands for
MetaElement(property_name) ==
    CASE property_name = "og:title" -> "og_title"
      [] property_name = "twitter:title" -> "twitter_title"
      [] property_name = "description" -> "description"
      [] property_name = "og:description" -> "og_description"
      [] property_name = "author" -> "author"
      [] OTHER -> "no such element"

\* MetadataExtractor._get_meta_content: the stripped content of the tag if
\* there is a tag and it has a content, else None. (Unguarded, a missing
\* tag would be subscripted: TypeError.)
_get_meta_content_unguarded(soup, property_name) ==
    LET content == Find(soup, MetaElement(property_name))
    IN IF content = None THEN "TypeError" ELSE Strip(content)
_get_meta_content(soup, property_name) ==
    LET content == Find(soup, MetaElement(property_name))
    IN IF Truthy(content) THEN Strip(content) ELSE None

\* MetadataExtractor._get_first_meta_content
RECURSIVE _get_first_meta_content(_, _)
_get_first_meta_content(soup, names) ==
    IF names = <<>> THEN None
    ELSE IF Truthy(_get_meta_content(soup, Head(names)))
         THEN _get_meta_content(soup, Head(names))
         ELSE _get_first_meta_content(soup, Tail(names))

\* MetadataExtractor._get_tag_text(soup, "title")
_get_tag_text(soup) ==
    IF Find(soup, "title") = None THEN None ELSE Strip(soup.title)

\* MetadataExtractor._extract_title
_extract_title_og_first(soup) ==
    IF Truthy(_get_first_meta_content(soup, <<"og:title", "twitter:title">>))
    THEN _get_first_meta_content(soup, <<"og:title", "twitter:title">>)
    ELSE IF Truthy(_get_tag_text(soup)) THEN _get_tag_text(soup) ELSE None
_extract_title(soup) ==
    IF Truthy(_get_tag_text(soup))
    THEN _get_tag_text(soup)
    ELSE _get_first_meta_content(soup, <<"og:title", "twitter:title">>)

\* MetadataExtractor._extract_description
_extract_description(soup) ==
    _get_first_meta_content(soup, <<"description", "og:description",
                                    "twitter:description">>)

\* MetadataExtractor._extract_author (meta author; article:author and the
\* rel=author link are in no document of the model)
_extract_author(soup) ==
    IF Truthy(_get_meta_content(soup, "author"))
    THEN _get_meta_content(soup, "author")
    ELSE None

\* MetadataExtractor._extract_keywords. The content of the keywords meta
\* is given by the pieces str.split(",") cuts it into. _get_meta_content
\* gives None for no tag, an empty content, or a content that is blank;
\* otherwise every piece is stripped and kept.
_extract_keywords(soup) ==
    IF "keywords" \notin DOMAIN soup
    THEN <<>>
    ELSE LET pieces == soup.keywords
         IN IF Len(pieces) = 1 /\ Strip(pieces[1]) = ""
            THEN <<>>
            ELSE [k \in 1..Len(pieces) |-> Strip(pieces[k])]

\* MetadataExtractor.extract: the fields of the ScrapedMetadata it returns
\* (those the documents of the model can fill)
extract(soup) ==
    [title |-> _extract_title(soup),
     description |-> _extract_description(soup),
     keywords |-> _extract_keywords(soup),
     author |-> _extract_author(soup)]

\* ScrapedMetadata.is_valid
is_valid_always(content) == TRUE
is_valid(content) == Truthy(content.title)

\* what session.get gives on one attempt: an exception, or a page
Exc(kind) == [kind |-> kind]
Page(soup) == [kind |-> "page", soup |-> soup]

RECURSIVE Pow(_, _)
Pow(b, e) == IF e = 0 THEN 1 ELSE b * Pow(b, e - 1)

\* one iteration of the for loop of BeautifulSoupScraper.scrape: the
\* method returns (soup, error), or sleeps and goes on to the next iteration
Return(soup, error) == [kind |-> "return", soup |-> soup, error |-> error]
Sleep(delay) == [kind |-> "sleep", delay |-> delay]

\* the handler of requests.exceptions.HTTPError (raise_for_status on a
\* 4xx/5xx response): the error is returned at once
on_http_error_retries(st, iteration) ==
    IF iteration < st.request.max_retries - 1
    THEN Sleep(Pow(st.request.retry_delay, iteration))
    ELSE Return(Nothing, "HTTP error")
on_http_error(st, iteration) == Return(Nothing, "HTTP error")

\* the handler of requests.exceptions.ConnectionError: time.sleep of
\* retry_delay ** attempt and the next iteration, except on the last
\* iteration, which returns the error
on_connection_error_sleeps_last(st, iteration) ==
    Sleep(Pow(st.request.retry_delay, iteration))
on_connection_error(st, iteration) ==
    IF iteration < st.request.max_retries - 1
    THEN Sleep(Pow(st.request.retry_delay, iteration))
    ELSE Return(Nothing, "Connection error")

\* the iteration numbered `iteration` (from 0), session.get giving r
scrape_iteration(st, iteration, r) ==
    CASE r.kind = "page" ->
            IF ~validate_soup(r.soup, st.selenium.required_elements)
            THEN Return(Nothing, "Validation failed: Required elements not found, may need Selenium")
            ELSE Return(Got(r.soup), None)
      [] r.kind = "Timeout" ->
            IF iteration = st.request.max_retries - 1
            THEN Sleep(Pow(st.request.retry_delay, iteration))
            ELSE Return(Nothing, "Timeout")
      [] r.kind = "HTTPError" -> on_http_error(st, iteration)
      [] r.kind = "ConnectionError" -> on_connection_error(st, iteration)
      [] r.kind = "RequestException" -> Return(Nothing, "Request exception")
      [] OTHER -> Return(Nothing, "Unexpected error")

\* the for loop is exhausted
MaxRetriesExceeded == Return(Nothing, "Max retries exceeded")

\* what scrape reports when self.driver is None
NotInitialized == "Selenium WebDriver is not initialized."

\* scrape without its first test: self.driver.get on None raises an
\* AttributeError, which the last except clause reports
selenium_scrape_unguarded(st, scraper, rendered) ==
    IF ~scraper.driver
    THEN [soup |-> Nothing, error |-> "Unexpected error during Selenium scraping"]
    ELSE CASE rendered.kind = "TimeoutException" ->
                 [soup |-> Nothing, error |-> "Selenium timeout"]
           [] rendered.kind = "WebDriverException" ->
                 [soup |-> Nothing, error |-> "Selenium WebDriver error"]
           [] OTHER ->
                 IF scraper.draft = "scrapers"
                 THEN [soup |-> Nothing,
                       error |-> "Unexpected error during Selenium scraping"]
                 ELSE IF ~validate_soup(rendered.soup, st.selenium.required_elements)
                      THEN [soup |-> Got(rendered.soup),
                            error |-> "Content validation failed even with Selenium."]
                      ELSE [soup |-> Got(rendered.soup), error |-> None]

\* SeleniumScraper.scrape: [soup, error]. In the draft of the scrapers
\* package the wait reads self.config, which __init__ does not set: the
\* AttributeError is caught as an unexpected error. A page that fails
\* validation is returned with its error.
selenium_scrape(st, scraper, rendered) ==
    IF ~scraper.driver
    THEN [soup |-> Nothing, error |-> NotInitialized]
    ELSE CASE rendered.kind = "TimeoutException" ->
                 [soup |-> Nothing, error |-> "Selenium timeout"]
           [] rendered.kind = "WebDriverException" ->
                 [soup |-> Nothing, error |-> "Selenium WebDriver error"]
           [] OTHER ->
                 IF scraper.draft = "scrapers"
                 THEN [soup |-> Nothing,
                       error |-> "Unexpected error during Selenium scraping"]
                 ELSE IF ~validate_soup(rendered.soup, st.selenium.required_elements)
                      THEN [soup |-> Got(rendered.soup),
                            error |-> "Content validation failed even with Selenium."]
                      ELSE [soup |-> Got(rendered.soup), error |-> None]

\* ScraperManager._try_beautifulsoup, given what bs_scraper.scrape
\* returned: [content, method, error]
_try_beautifulsoup(st, fetched) ==
    LET ret(content, error) ==
            [content |-> content, method |-> "beautifulsoup", error |-> error]
    IN IF fetched.soup = Nothing
       THEN ret(Nothing, fetched.error)
       ELSE IF ~validate_soup(fetched.soup.value, st.selenium.required_elements)
            THEN ret(Nothing, "Content validation failed")
            ELSE IF ~is_valid(extract(fetched.soup.value))
                 THEN ret(Nothing, "Extracted content is invalid (no title found)")
                 ELSE ret(Got(extract(fetched.soup.value)), None)

\* ScraperManager._try_selenium: [content, method, error, called], called
\* telling whether selenium_scraper.scrape was invoked
_try_selenium(st, scraper, rendered) ==
    LET ret(content, error, called) ==
            [content |-> content, method |-> "selenium", error |-> error,
             called |-> called]
        r == selenium_scrape(st, scraper, rendered)
    IN IF scraper = Nothing
       THEN ret(Nothing, "Selenium is disabled", FALSE)
       ELSE IF r.soup = Nothing
            THEN ret(Nothing, r.error, TRUE)
            ELSE IF ~is_valid(extract(r.soup.value))
                 THEN ret(Nothing, "Selenium: Extracted content is invalid", TRUE)
                 ELSE ret(Got(extract(r.soup.value)), None, TRUE)

\* ScraperManager.scrape_article after _try_beautifulsoup gave `content`:
\* whether _try_selenium is called
fallback_ignores_flag(st, content) == content = Nothing
fallback_always(st, content) == st.selenium.enabled_fallback
fallback(st, content) == content = Nothing /\ st.selenium.enabled_fallback

-----------------------------------------------------------------------------
(* Article, TechnicalMetadata and the lookup by url_hash                   *)

\* TechnicalMetadata(): the field defaults (scraped_date and
\* processing_time, which hold clock readings, are left out)
TechnicalMetadata ==
    [url_hash |-> "", scraping_method |-> None, status |-> "pending",
     error_message |-> None, retry_count |-> 0]

\* Article._generate_url_hash: sha256 of the url as it stands, one digest
\* per distinct url string
_generate_url_hash(url) == "sha256:" \o url[1] \o url[2]

\* the keys ArticleMetadata's constructor requires (source and category are
\* strings in every entry and are left out)
ArticleMetadataFields == {"id", "url", "priority"}

\* ArticleMetadata(**article_data): TypeError on a missing or unknown key;
\* no field is validated
ArticleMetadata(data) ==
    IF DOMAIN data = ArticleMetadataFields
    THEN Got(data)
    ELSE Raised("TypeError")

\* __post_init__ without its test: the hash is generated whatever the
\* technical metadata holds
from_metadata_always_hashes(metadata, shared) ==
    [id |-> metadata.id, url |-> metadata.url, priority |-> metadata.priority,
     scraped_metadata |-> Nothing, url_hash |-> _generate_url_hash(metadata.url)]

\* Article.from_metadata: the technical_metadata field is not passed, so the
\* new Article refers to the one default instance the class was defined
\* with, whose state is `shared`. __post_init__ stores the hash in an
\* attribute of the Article, url_hash, when that instance has none; the
\* instance is not written.
from_metadata(metadata, shared) ==
    LET fresh == [id |-> metadata.id, url |-> metadata.url,
                  priority |-> metadata.priority, scraped_metadata |-> Nothing]
    IN IF ~Truthy(shared.url_hash)
       THEN [k \in DOMAIN fresh \cup {"url_hash"} |->
                IF k = "url_hash" THEN _generate_url_hash(metadata.url)
                ELSE fresh[k]]
       ELSE fresh

\* Article.mark_success, on the technical metadata the article refers to
\* (mark_success_keeps_error: without its last assignment)
mark_success_keeps_error(tm, method) ==
    [tm EXCEPT !.status = "success", !.scraping_method = method]
mark_success(tm, method) ==
    [tm EXCEPT !.status = "success", !.scraping_method = method,
               !.error_message = None]

\* Article.mark_failed
mark_failed(tm, error_message, method) ==
    [tm EXCEPT !.status = "failed", !.scraping_method = method,
               !.error_message = error_message, !.retry_count = @ + 1]

\* what Article.to_dict and MongoDB.save read of an article: its id, its
\* scraped metadata (by the title) and the fields of its technical metadata
Stored(art, tm) ==
    [id |-> art.id,
     scraped_metadata |-> IF art.scraped_metadata = Nothing THEN None
                          ELSE art.scraped_metadata.title,
     url_hash |-> tm.url_hash, scraping_method |-> tm.scraping_method,
     status |-> tm.status, error_message |-> tm.error_message,
     retry_count |-> tm.retry_count]

\* Article.from_dict: builds scraped_metadata and ends without a return
\* statement, so the call gives None
from_dict(doc) == Nothing

\* MongoDB.find_by_url_hash: find_one on technical_metadata.url_hash, the
\* document handed to Article.from_dict
find_by_url_hash(coll, h) ==
    IF Matching(coll, h) = {}
    THEN Nothing
    ELSE from_dict(coll[Min(Matching(coll, h))])

-----------------------------------------------------------------------------
(* Rest values of each component's variables                               *)

Workers == 1..NumWorkers

\* a worker that has not called save() yet holds no article
NoArticle == [id |-> None, url_hash |-> None, status |-> None, scraped_metadata |-> None]

StoreRest == collection = <<>> /\ saveLog = <<>>
RaceRest ==
    /\ wpc = [w \in Workers |-> "idle"]
    /\ wart = [w \in Workers |-> NoArticle]
    /\ wret = [w \in Workers |-> None]
    /\ issued = {}
    /\ acked = {}
    /\ ncalls = 0

NoOp == [op |-> "none"]

\* the counters Consumer.__init__ creates (stats_left_over: were they
\* taken over from an earlier use instead)
stats_left_over == [total_processed |-> 1, success |-> 1, failed |-> 0]
stats_created == [total_processed |-> 0, success |-> 0, failed |-> 0]

\* Consumer.__init__
LoopRest ==
    /\ running = FALSE
    /\ lpc = "idle"
    /\ max_articles = 0
    /\ stats = stats_created
    /\ batchLeft = 0
    /\ processed = FALSE
    /\ closed = FALSE
    /\ exc = Nothing
    /\ stopRequested = FALSE
    /\ interrupted = FALSE
    /\ lastDeq = NoOp

\* ScraperManager.__init__ with the default settings, the driver not started
SeleniumScraper(draft, driver) ==
    [kind |-> "SeleniumScraper", draft |-> draft, driver |-> driver]

FetchRest ==
    /\ settings = ScraperConfig
    /\ selenium_scraper = SeleniumScraper("scrapers", FALSE)
    /\ fpc = "idle"
    /\ attempt = 0
    /\ sleeps = <<>>
    /\ responses = <<>>
    /\ calls = <<>>
    /\ static = NoOp
    /\ rendering = NoOp
    /\ outcome = NoOp

\* ScrapedMetadata(): every field None
MetaRest ==
    /\ scraped = [title |-> None, description |-> None, author |-> None]
    /\ valid = None

\* ConsumerConfig defaults. max_articles is None there: run() reads it only
\* for its truth value, which is that of 0.
ConsumerConfig == [poll_interval |-> 2, max_articles |-> 0, batch_size |-> 1]

\* Consumer.__init__ given a RedisManager; no Article has been made yet
ProcRest ==
    /\ queue_manager = "RedisManager"
    /\ technical_default = TechnicalMetadata
    /\ inflight = Nothing
    /\ batch_size = ConsumerConfig.batch_size
    /\ dequeued = 0
    /\ plog = <<>>

\* no function has been called on its own
PureRest == given = NoOp /\ returned = NoOp

QueueRest ==
    /\ lanes = [q \in QueueNames |-> <<>>]
    /\ redisUp = TRUE
    /\ enq = [q \in QueueNames |-> <<>>]
    /\ deq = [q \in QueueNames |-> <<>>]
    /\ lastOp = NoOp
    /\ npush = 0

-----------------------------------------------------------------------------
(* SpecUpsert: one client calling MongoDB.save repeatedly                  *)

InitUpsert == StoreRest /\ RaceRest /\ QueueRest /\ LoopRest /\ FetchRest /\ MetaRest /\ ProcRest /\ PureRest

Save(article, fail) ==
    /\ Len(saveLog) < MaxSaves
    /\ LET r == save(collection, article, fail)
       IN /\ collection' = r.coll
          /\ saveLog' = Append(saveLog,
                 [article |-> article, fail |-> fail, ret |-> r.ret])
    /\ UNCHANGED <<raceVars, queueVars, loopVars, fetchVars, metaVars, procVars, pureVars>>

NextUpsert == \E article \in Articles, fail \in FailPoints : Save(article, fail)

SpecUpsert == InitUpsert /\ [][NextUpsert]_vars

\* C1: two save() calls with Articles of the same url_hash, the store
\* answering both: both return True, and exactly one record with that
\* url_hash is stored, equal in full to the second call's article.
C1_UpsertTwiceKeepsSecond ==
    LET n == Len(saveLog) IN
    \A i \in 1..(n - 1) :
        ( /\ saveLog[i].article.url_hash = saveLog[n].article.url_hash
          /\ saveLog[i].fail = "none"
          /\ saveLog[n].fail = "none" )
        => /\ saveLog[i].ret = TRUE
           /\ saveLog[n].ret = TRUE
           /\ Cardinality(Matching(collection, saveLog[n].article.url_hash)) = 1
           /\ \A j \in Matching(collection, saveLog[n].article.url_hash) :
                  collection[j] = to_dict(saveLog[n].article)

\* two answered calls on one url_hash, the first with scraped metadata and
\* the second without, so that a field-level merge would show
C1_Witness ==
    /\ Len(saveLog) = 2
    /\ saveLog[1].article.url_hash = saveLog[2].article.url_hash
    /\ saveLog[1].fail = "none" /\ saveLog[2].fail = "none"
    /\ saveLog[1].article.scraped_metadata = "Example"
    /\ saveLog[2].article.scraped_metadata = None
    /\ saveLog[1].article.status # saveLog[2].article.status
    /\ Len(collection) = 1

-----------------------------------------------------------------------------
(* SpecRace: workers racing through MongoDB.save on one collection. Each   *)
(* store operation (insert_one, replace_one) is atomic at the store; the   *)
(* worker's steps in between interleave freely.                            *)

InitRace == StoreRest /\ RaceRest /\ QueueRest /\ LoopRest /\ FetchRest /\ MetaRest /\ ProcRest /\ PureRest

\* save() entered: article.to_dict() is taken
SaveBegin(w, article) ==
    /\ wpc[w] \in {"idle", "done"}
    /\ ncalls < MaxRaceCalls
    /\ wpc' = [wpc EXCEPT ![w] = "insert"]
    /\ wart' = [wart EXCEPT ![w] = article]
    /\ wret' = [wret EXCEPT ![w] = None]
    /\ issued' = issued \cup {article}
    /\ ncalls' = ncalls + 1
    /\ UNCHANGED <<storeVars, acked, queueVars, loopVars, fetchVars, metaVars, procVars, pureVars>>

\* collection.insert_one: stores the document and save() returns True, or
\* raises DuplicateKeyError and save() goes on to _update_duplicate
InsertOne(w) ==
    /\ wpc[w] = "insert"
    /\ IF DuplicateKey(collection, to_dict(wart[w]))
       THEN /\ wpc' = [wpc EXCEPT ![w] = "replace"]
            /\ UNCHANGED <<collection, wret, acked>>
       ELSE /\ collection' = insert_one(collection, to_dict(wart[w]))
            /\ wret' = [wret EXCEPT ![w] = "True"]
            /\ acked' = acked \cup {wart[w].url_hash}
            /\ wpc' = [wpc EXCEPT ![w] = "done"]
    /\ UNCHANGED <<saveLog, wart, issued, ncalls, queueVars, loopVars, fetchVars, metaVars, procVars, pureVars>>

\* _update_duplicate: collection.replace_one, then True
ReplaceOne(w) ==
    /\ wpc[w] = "replace"
    /\ collection' = replace_one(collection, wart[w].url_hash, to_dict(wart[w]))
    /\ wret' = [wret EXCEPT ![w] = "True"]
    /\ acked' = acked \cup {wart[w].url_hash}
    /\ wpc' = [wpc EXCEPT ![w] = "done"]
    /\ UNCHANGED <<saveLog, wart, issued, ncalls, queueVars, loopVars, fetchVars, metaVars, procVars, pureVars>>

\* the store operation the worker is at raises PyMongoError: save() logs
\* the error and returns False
StoreError(w) ==
    /\ wpc[w] \in {"insert", "replace"}
    /\ wret' = [wret EXCEPT ![w] = "False"]
    /\ wpc' = [wpc EXCEPT ![w] = "done"]
    /\ UNCHANGED <<storeVars, wart, issued, acked, ncalls, queueVars, loopVars, fetchVars, metaVars, procVars, pureVars>>

NextRace ==
    \/ \E w \in Workers, article \in Articles : SaveBegin(w, article)
    \/ \E w \in Workers : InsertOne(w)
    \/ \E w \in Workers : ReplaceOne(w)
    \/ \E w \in Workers : StoreError(w)

SpecRace == InitRace /\ [][NextRace]_vars

Quiet == \A w \in Workers : wpc[w] \in {"idle", "done"}

\* C2: under every interleaving of the workers' insert and replace steps
\* the collection never holds two records with one url_hash; and once no
\* call is in progress, the record stored for a url_hash is the article of
\* one of the calls made with it, and exists if one of them returned True.
C2_RaceKeepsOneRecord ==
    \A h \in Hashes :
        /\ Cardinality(Matching(collection, h)) <= 1
        /\ Quiet =>
              /\ \A i \in Matching(collection, h) :
                     \E a \in issued : a.url_hash = h /\ collection[i] = to_dict(a)
              /\ h \in acked => Matching(collection, h) # {}

\* two workers have finished calls with different articles of one url_hash,
\* both returned True, and one record is stored
C2_Witness ==
    /\ Quiet
    /\ wart[1] # wart[2]
    /\ wart[1].url_hash = wart[2].url_hash
    /\ wret[1] = "True" /\ wret[2] = "True"
    /\ Len(collection) = 1
    /\ collection[1] = to_dict(wart[2])

-----------------------------------------------------------------------------
(* SpecQueue: the publisher's enqueue paths and the queue client's pop on  *)
(* the three Redis lists.                                                  *)

\* what the lists hold when the client connects: entries an earlier
\* producer left, each valid and in the list of its priority
Backlogs(q) ==
    LET mine == {i \in ValidItems : get_queue_name(i.priority) = q}
    IN {<<>>} \cup {<<dumps(i)>> : i \in mine}
       \cup {<<dumps(pr[1]), dumps(pr[2])>> :
                 pr \in {x \in mine \X mine : x[1] # x[2]}}

RECURSIVE Reverse(_)
Reverse(seq) == IF seq = <<>> THEN <<>> ELSE Append(Reverse(Tail(seq)), Head(seq))

Decoded(seq) == [k \in 1..Len(seq) |-> loads(seq[k])]

InitQueue ==
    /\ StoreRest /\ RaceRest /\ LoopRest /\ FetchRest /\ MetaRest /\ ProcRest /\ PureRest
    /\ lanes \in [QueueNames -> UNION {Backlogs(q) : q \in QueueNames}]
    /\ \A q \in QueueNames : lanes[q] \in Backlogs(q)
    /\ redisUp = TRUE
    /\ enq = [q \in QueueNames |-> Reverse(Decoded(lanes[q]))]
    /\ deq = [q \in QueueNames |-> <<>>]
    /\ lastOp = NoOp
    /\ npush = 0

\* the arrivals of an enqueue: the entries it put before those the lists
\* held, the first arrived being the rightmost of them
Arrived(before, after) ==
    [q \in QueueNames |->
        enq[q] \o Reverse(Decoded(SubSeq(after[q], 1,
                                          Len(after[q]) - Len(before[q]))))]

Push(item) ==
    /\ npush < MaxPushes
    /\ LET r == push(lanes, item, redisUp)
       IN /\ lanes' = r.lanes
          /\ enq' = Arrived(lanes, r.lanes)
          /\ lastOp' = [op |-> "push", item |-> item, up |-> redisUp,
                        before |-> lanes, ret |-> r.ret, calls |-> r.calls]
    /\ npush' = npush + 1
    /\ UNCHANGED <<storeVars, raceVars, loopVars, redisUp, deq, fetchVars, metaVars, procVars, pureVars>>

PublishSingle(item) ==
    /\ npush < MaxPushes
    /\ LET r == publish_single(lanes, item, redisUp)
       IN /\ lanes' = r.lanes
          /\ enq' = Arrived(lanes, r.lanes)
          /\ lastOp' = [op |-> "publish_single", item |-> item, up |-> redisUp,
                        before |-> lanes, ret |-> r.ret]
    /\ npush' = npush + 1
    /\ UNCHANGED <<storeVars, raceVars, loopVars, redisUp, deq, fetchVars, metaVars, procVars, pureVars>>

PushBatch(articles) ==
    /\ npush < MaxPushes
    /\ LET r == push_batch(lanes, articles, redisUp)
       IN /\ lanes' = r.lanes
          /\ enq' = Arrived(lanes, r.lanes)
          /\ lastOp' = [op |-> "push_batch", items |-> articles, up |-> redisUp,
                        before |-> lanes, ret |-> r.success]
    /\ npush' = npush + 1
    /\ UNCHANGED <<storeVars, raceVars, loopVars, redisUp, deq, fetchVars, metaVars, procVars, pureVars>>

PublishFromFile(records) ==
    /\ npush < MaxPushes
    /\ LET r == publish_from_file(lanes, records, redisUp)
       IN /\ lanes' = r.lanes
          /\ enq' = Arrived(lanes, r.lanes)
          /\ lastOp' = [op |-> "publish_from_file", items |-> records, up |-> redisUp,
                        before |-> lanes, ret |-> r.ret]
    /\ npush' = npush + 1
    /\ UNCHANGED <<storeVars, raceVars, loopVars, redisUp, deq, fetchVars, metaVars, procVars, pureVars>>

\* RedisManager.pop(priority, timeout) on an explicit lane or with no lane
Pop(priority, timeout) ==
    /\ LET r == pop(lanes, priority, timeout, redisUp)
           q == get_queue_name(priority)
       IN /\ lanes' = r.lanes
          /\ lastOp' = [op |-> "pop", priority |-> priority, up |-> redisUp,
                        before |-> lanes, ret |-> r.ret, calls |-> r.calls]
          /\ deq' = IF r.ret.kind = "value"
                    THEN [deq EXCEPT ![q] = Append(@, r.ret.value)]
                    ELSE deq
    /\ UNCHANGED <<storeVars, raceVars, loopVars, redisUp, enq, npush, fetchVars, metaVars, procVars, pureVars>>

\* the connection to the server is lost, or comes back
RedisFlip ==
    /\ redisUp' = ~redisUp
    /\ UNCHANGED <<storeVars, raceVars, loopVars, lanes, enq, deq, lastOp, npush, fetchVars, metaVars, procVars, pureVars>>

\* article lists handed to push_batch, and the records of a seed file
Files ==
    LET a1 == CHOOSE i \in ValidItems : i.id = "a1"
        a2 == CHOOSE i \in ValidItems : i.id = "a2"
        b1 == CHOOSE i \in InvalidItems : i.id = "b1"
        b2 == CHOOSE i \in InvalidItems : i.id = "b2"
    IN {<<a1, a2>>, <<a2, b1>>, <<b2, a1>>, <<b1, b2>>}

NextQueue ==
    \/ \E item \in Items : Push(item)
    \/ \E item \in Items : PublishSingle(item)
    \/ \E articles \in Files : PushBatch(articles)
    \/ \E records \in Files : PublishFromFile(records)
    \/ \E priority \in {None, "high", "medium", "low"}, timeout \in {0, 1} :
           Pop(priority, timeout)
    \/ RedisFlip

SpecQueue == InitQueue /\ [][NextQueue]_vars

IsPrefix(s, t) == Len(s) <= Len(t) /\ s = SubSeq(t, 1, Len(s))

C7_EnqueueAddsToOwnLane ==
    ( /\ lastOp.op \in {"push", "publish_single"}
      /\ lastOp.up
      /\ validate(lastOp.item) )
    => /\ lastOp.ret = TRUE
       /\ lanes = [lastOp.before EXCEPT ![get_queue_name(lastOp.item.priority)] =
                      <<dumps(lastOp.item)>> \o @]

-----------------------------------------------------------------------------
(* SpecLoop: Consumer.run, the ingestion loop, on the three Redis lists.   *)

\* the limits run() is started with
MaxArticleChoices == {0, 1, 2}

InitLoop ==
    /\ StoreRest /\ RaceRest /\ LoopRest /\ FetchRest /\ MetaRest /\ ProcRest /\ PureRest
    /\ lanes \in [QueueNames -> UNION {Backlogs(q) : q \in QueueNames}]
    /\ \A q \in QueueNames : lanes[q] \in Backlogs(q)
    /\ redisUp = TRUE
    /\ enq = [q \in QueueNames |-> <<>>]
    /\ deq = [q \in QueueNames |-> <<>>]
    /\ lastOp = NoOp
    /\ npush = 0

\* Consumer.run entered: max_articles = max_articles or settings.max_articles,
\* running = True
Run(limit) ==
    /\ lpc = "idle"
    /\ max_articles' = IF limit # 0 THEN limit ELSE ConsumerConfig.max_articles
    /\ running' = TRUE
    /\ lpc' = "loop"
    /\ UNCHANGED <<storeVars, raceVars, queueVars, stats, batchLeft, processed,
                   closed, exc, stopRequested, interrupted, lastDeq, fetchVars, metaVars, procVars, pureVars>>

MaxReached ==
    /\ max_articles # 0
    /\ stats.total_processed >= max_articles

\* the head of the while loop, reached at the start and after a cycle (from
\* "sleep": once time.sleep(poll_interval) has returned): the loop is left
\* when running is False or the limit is reached, else a batch begins
LoopTop ==
    /\ lpc \in {"loop", "sleep"}
    /\ IF ~running \/ MaxReached
       THEN /\ lpc' = "shutdown"
            /\ UNCHANGED <<processed, batchLeft, dequeued>>
       ELSE /\ lpc' = "batch"
            /\ processed' = FALSE
            /\ batchLeft' = batch_size
            /\ dequeued' = 0
    /\ UNCHANGED <<storeVars, raceVars, queueVars, running, max_articles, stats,
                   closed, exc, stopRequested, interrupted, lastDeq, fetchVars, metaVars,
                   queue_manager, technical_default, inflight, batch_size, plog, pureVars>>

\* the highest-priority lane that holds an entry, and its oldest entry
FirstNonEmpty(lns) ==
    IF lns[queue_high] # <<>> THEN queue_high
    ELSE IF lns[queue_medium] # <<>> THEN queue_medium
    ELSE queue_low

\* queue_manager.pop(timeout=0) as consume_and_process calls it. A
\* RedisManager runs its pop with priority None. Any other queue client
\* the consumer is constructed with is known by what consume_and_process
\* expects of it: an entry taken from the right end of one of the lists, or
\* None when every list is empty.
pop_any(lns) ==
    IF \A q \in QueueNames : lns[q] = <<>>
    THEN {[lanes |-> lns, ret |-> Nothing]}
    ELSE {[lanes |-> [lns EXCEPT ![q] = rpop(lns[q]).rest],
           ret |-> Got(loads(rpop(lns[q]).value))] :
              q \in {x \in QueueNames : lns[x] # <<>>}}

Pops ==
    IF queue_manager = "RedisManager"
    THEN {pop(lanes, None, 0, redisUp)}
    ELSE pop_any(lanes)

\* Consumer.run after the for loop of the batch was left by break: the
\* cycle sleeps poll_interval (lpc "sleep" is time.sleep running) if
\* `processed` is still False, else the next cycle starts at once
after_batch_never_sleeps(flag) == "loop"
after_batch(flag) == IF flag THEN "loop" ELSE "sleep"

\* consume_and_process returns True: the for loop of the batch goes on, or
\* the cycle ends when the batch is complete
ReturnTrue ==
    /\ processed' = TRUE
    /\ batchLeft' = batchLeft - 1
    /\ lpc' = IF batchLeft = 1 THEN "loop" ELSE "batch"

\* self.stats['by_priority'][article.priority.lower()] += 1 has the key
by_priority(priority) == Lower(priority) \in {"high", "medium", "low"}

\* the entry plog gets when _process_article is entered with `item`
Entered(item) ==
    [item |-> item, before |-> collection, tm |-> technical_default,
     existing |-> "None", fetched |-> FALSE, content |-> Nothing,
     method |-> None, save |-> None, raised |-> None, done |-> FALSE,
     stop |-> FALSE, after |-> collection]

Last(seq) == seq[Len(seq)]
SetLast(seq, entry) == [seq EXCEPT ![Len(seq)] = entry]

\* one iteration of the batch's for loop: consume_and_process, which calls
\* queue_manager.pop(timeout=0), with no priority. An exception of pop
\* leaves consume_and_process and run (only KeyboardInterrupt is caught
\* there) through the finally clause. None ends the batch; the cycle then
\* sleeps if nothing was processed. An item is handed to _process_article,
\* which builds the ArticleMetadata and the Article, looks the url_hash of
\* the article's technical metadata up and, unless a record with status
\* success came back, calls scrape_article.
ConsumeAndProcess ==
    /\ lpc = "batch"
    /\ \E r \in Pops :
       /\ lanes' = r.lanes
       /\ lastDeq' = [op |-> "consume", up |-> redisUp, before |-> lanes,
                      ret |-> r.ret]
       /\ CASE r.ret.kind = "raise" ->
                 /\ exc' = r.ret
                 /\ lpc' = "shutdown"
                 /\ UNCHANGED <<stats, processed, batchLeft, fetchVars,
                                inflight, dequeued, plog>>
            [] r.ret.kind = "None" ->
                 /\ lpc' = after_batch(processed)
                 /\ UNCHANGED <<stats, processed, batchLeft, exc, fetchVars,
                                inflight, dequeued, plog>>
            [] OTHER ->
                 LET item == r.ret.value
                     metadata == ArticleMetadata(item)
                     made == from_metadata(metadata.value, technical_default)
                     existing == find_by_url_hash(collection,
                                                  technical_default.url_hash)
                 IN /\ UNCHANGED exc
                    /\ dequeued' = dequeued + 1
                    /\ IF metadata.kind = "raise"
                       THEN /\ lpc' = "except"
                            /\ plog' = Append(plog,
                                   [Entered(item) EXCEPT !.raised = metadata.error])
                            /\ UNCHANGED <<stats, processed, batchLeft,
                                           fetchVars, inflight>>
                       ELSE IF /\ existing # Nothing
                               /\ existing.value.technical_metadata.status = "success"
                       THEN /\ stats' = [stats EXCEPT !.total_processed = @ + 1]
                            /\ UNCHANGED <<fetchVars, inflight>>
                            /\ IF by_priority(made.priority)
                               THEN /\ ReturnTrue
                                    /\ plog' = Append(plog,
                                           [Entered(item) EXCEPT
                                               !.existing = "success",
                                               !.done = TRUE])
                               ELSE /\ lpc' = "except"
                                    /\ plog' = Append(plog,
                                           [Entered(item) EXCEPT
                                               !.existing = "success",
                                               !.raised = "KeyError"])
                                    /\ UNCHANGED <<processed, batchLeft>>
                       ELSE /\ lpc' = "processing"
                            /\ inflight' = made
                            /\ plog' = Append(plog,
                                   [Entered(item) EXCEPT !.fetched = TRUE])
                            /\ fpc' = "beautifulsoup"
                            /\ attempt' = 0
                            /\ sleeps' = <<>>
                            /\ responses' = <<>>
                            /\ calls' = <<"beautifulsoup">>
                            /\ static' = NoOp
                            /\ rendering' = NoOp
                            /\ outcome' = NoOp
                            /\ UNCHANGED <<stats, processed, batchLeft,
                                           settings, selenium_scraper>>
    /\ UNCHANGED <<storeVars, raceVars, redisUp, enq, deq, lastOp, npush, running,
                   max_articles, closed, stopRequested, interrupted, metaVars,
                   queue_manager, technical_default, batch_size, pureVars>>

\* _process_article once scrape_article has returned: mark_success or
\* mark_failed on the article (which writes the technical metadata the
\* article refers to), the success or failed counter, db.save, then
\* total_processed and by_priority. A KeyError of by_priority goes to the
\* except clause. `fail` tells whether and where the store raises.
StoreOutcome(fail) ==
    /\ lpc = "processing"
    /\ fpc = "done"
    /\ LET ok == outcome.content # Nothing
           tm == IF ok
                 THEN mark_success(technical_default, outcome.method)
                 ELSE mark_failed(technical_default,
                                  IF Truthy(outcome.error) THEN outcome.error
                                  ELSE "Unknown error",
                                  outcome.method)
           marked == IF ok
                     THEN [inflight EXCEPT !.scraped_metadata = outcome.content.value]
                     ELSE inflight
           saved == save(collection, Stored(marked, tm), fail)
           raises == ~by_priority(marked.priority)
       IN /\ technical_default' = tm
          /\ collection' = saved.coll
          /\ stats' = [stats EXCEPT
                          !.success = IF ok THEN @ + 1 ELSE @,
                          !.failed = IF ok THEN @ ELSE @ + 1,
                          !.total_processed = @ + 1]
          /\ plog' = SetLast(plog,
                 [Last(plog) EXCEPT
                     !.content = outcome.content,
                     !.method = outcome.method,
                     !.tm = tm,
                     !.save = IF saved.ret THEN "True" ELSE "False",
                     !.raised = IF raises THEN "KeyError" ELSE None,
                     !.done = ~raises,
                     !.after = saved.coll])
          /\ IF raises
             THEN /\ lpc' = "except"
                  /\ UNCHANGED <<processed, batchLeft>>
             ELSE ReturnTrue
    /\ inflight' = Nothing
    /\ UNCHANGED <<saveLog, raceVars, queueVars, running, max_articles, closed,
                   exc, stopRequested, interrupted, lastDeq, fetchVars, metaVars,
                   queue_manager, batch_size, dequeued, pureVars>>

\* the except clause of _process_article, on the counters
on_exception_uncounted(st) == st
on_exception(st) == [st EXCEPT !.failed = @ + 1]

\* the except clause of _process_article: the exception is logged, failed
\* is incremented, and _process_article returns
Except ==
    /\ lpc = "except"
    /\ stats' = on_exception(stats)
    /\ plog' = SetLast(plog, [Last(plog) EXCEPT !.done = TRUE])
    /\ ReturnTrue
    /\ UNCHANGED <<storeVars, raceVars, queueVars, running, max_articles, closed,
                   exc, stopRequested, interrupted, lastDeq, fetchVars, metaVars,
                   queue_manager, technical_default, inflight, batch_size,
                   dequeued, pureVars>>

\* ScraperManager.close on its selenium_scraper: SeleniumScraper.close
\* quits the driver if there is one
close_nothing(scraper) == scraper
close(scraper) ==
    IF scraper = Nothing THEN scraper ELSE [scraper EXCEPT !.driver = FALSE]

\* the finally clause: _shutdown sets running = False, prints the final
\* statistics and closes the scraper manager, which quits the driver of
\* its SeleniumScraper; run returns or re-raises
Shutdown ==
    /\ lpc = "shutdown"
    /\ running' = FALSE
    /\ closed' = TRUE
    /\ selenium_scraper' = close(selenium_scraper)
    /\ lpc' = "stopped"
    /\ UNCHANGED <<storeVars, raceVars, queueVars, max_articles, stats, batchLeft,
                   processed, exc, stopRequested, interrupted, lastDeq, settings,
                   fpc, attempt, sleeps, responses, calls, static, rendering,
                   outcome, metaVars, procVars, pureVars>>

InRun == {"loop", "batch", "sleep", "processing", "except"}

\* Consumer.stop: self.running = False
stop_ignored(flag) == flag
stop(flag) == FALSE

\* Consumer.stop, called from outside while run is executing (plog notes
\* the item that was being processed then)
Stop ==
    /\ lpc \in InRun
    /\ ~stopRequested
    /\ running' = stop(running)
    /\ stopRequested' = TRUE
    /\ plog' = IF lpc \in {"processing", "except"}
               THEN SetLast(plog, [Last(plog) EXCEPT !.stop = TRUE])
               ELSE plog
    /\ UNCHANGED <<storeVars, raceVars, queueVars, lpc, max_articles, stats,
                   batchLeft, processed, closed, exc, interrupted, lastDeq,
                   fetchVars, metaVars, queue_manager, technical_default,
                   inflight, batch_size, dequeued, pureVars>>

\* KeyboardInterrupt inside the try block: not an Exception, so it passes
\* the except clause of _process_article and unwinds scrape_article; run
\* catches it, then the finally clause
Interrupt ==
    /\ lpc \in InRun
    /\ interrupted' = TRUE
    /\ lpc' = "shutdown"
    /\ fpc' = IF lpc = "processing" THEN "idle" ELSE fpc
    /\ inflight' = Nothing
    /\ UNCHANGED <<storeVars, raceVars, queueVars, running, max_articles, stats,
                   batchLeft, processed, closed, exc, stopRequested, lastDeq,
                   settings, selenium_scraper, attempt, sleeps, responses, calls,
                   static, rendering, outcome, metaVars, queue_manager,
                   technical_default, batch_size, dequeued, plog, pureVars>>

LoopStep == LoopTop \/ ConsumeAndProcess \/ Shutdown

NextLoop ==
    \/ \E limit \in MaxArticleChoices : Run(limit)
    \/ LoopTop
    \/ ConsumeAndProcess
    \/ Shutdown
    \/ Stop
    \/ Interrupt

\* the loop is one thread that runs whenever it can take a step
SpecLoop == InitLoop /\ [][NextLoop]_vars /\ WF_vars(LoopStep)

Excused == stopRequested \/ interrupted \/ MaxReached \/ ~redisUp

\* C4: while the loop runs, every item waiting in a lane is eventually
\* dequeued, unless the loop is stopped or interrupted, the limit is
\* reached, or the queue is unavailable.
C4_EveryItemEventuallyDequeued ==
    \A q \in QueueNames : \A item \in ValidItems :
        [](( /\ lpc \in {"loop", "batch", "sleep"}
             /\ \E k \in 1..Len(lanes[q]) : lanes[q][k] = dumps(item) )
           => <>( \/ ~\E k \in 1..Len(lanes[q]) : lanes[q][k] = dumps(item)
                  \/ Excused ))

\* C5: a dequeue of the loop, made while some lane holds an entry and the
\* queue answers, returns the oldest entry of the highest-priority lane
\* that is not empty: high before medium before low.
C5_DrainsInPriorityOrder ==
    ( /\ lastDeq.op = "consume"
      /\ lastDeq.up
      /\ \E q \in QueueNames : lastDeq.before[q] # <<>> )
    => LET q == FirstNonEmpty(lastDeq.before)
       IN lastDeq.ret = Got(loads(lastDeq.before[q][Len(lastDeq.before[q])]))

-----------------------------------------------------------------------------
(* SpecFetch: ScraperManager.scrape_article, the static fetcher's retry    *)
(* loop and the fallback to the rendering fetcher, against a web that      *)
(* answers each request as it pleases.                                     *)

RetryDelays == {1, 2}
RequiredElements == {<<>>, <<"title">>}

\* what session.get can give on an attempt, and driver.get on a rendering
Responses ==
    {Exc(k) : k \in {"Timeout", "HTTPError", "ConnectionError",
                     "RequestException", "Exception"}}
    \cup {Page(d) : d \in Docs}
Renderings ==
    {Exc("TimeoutException"), Exc("WebDriverException")} \cup {Page(d) : d \in Docs}

\* ScraperManager.__init__: a SeleniumScraper is made only if the fallback
\* is enabled, from either draft of the class; its driver may fail to start
InitFetch ==
    /\ StoreRest /\ RaceRest /\ QueueRest /\ LoopRest /\ MetaRest /\ ProcRest /\ PureRest
    /\ \E m \in 1..MaxRetriesBound, d \in RetryDelays, e \in BOOLEAN,
          req \in RequiredElements :
          settings = [request |-> [RequestsConfig EXCEPT !.max_retries = m,
                                                         !.retry_delay = d],
                      selenium |-> [SeleniumConfig EXCEPT !.enabled_fallback = e,
                                                          !.required_elements = req]]
    /\ IF settings.selenium.enabled_fallback
       THEN \E draft \in {"consumer", "scrapers"}, driver \in BOOLEAN :
                selenium_scraper = SeleniumScraper(draft, driver)
       ELSE selenium_scraper = Nothing
    /\ fpc = "idle"
    /\ attempt = 0
    /\ sleeps = <<>>
    /\ responses = <<>>
    /\ calls = <<>>
    /\ static = NoOp
    /\ rendering = NoOp
    /\ outcome = NoOp

\* scrape_article is called: _try_beautifulsoup calls bs_scraper.scrape
ScrapeArticle ==
    /\ fpc \in {"idle", "done"}
    /\ fpc' = "beautifulsoup"
    /\ attempt' = 0
    /\ sleeps' = <<>>
    /\ responses' = <<>>
    /\ calls' = <<"beautifulsoup">>
    /\ static' = NoOp
    /\ rendering' = NoOp
    /\ outcome' = NoOp
    /\ UNCHANGED <<storeVars, raceVars, queueVars, loopVars, settings,
                   selenium_scraper, metaVars, procVars, pureVars>>

\* one iteration of the retry loop, session.get giving r. When scrape
\* returns, or its loop is exhausted, _try_beautifulsoup validates and
\* extracts, and scrape_article returns or falls back.
Get(r) ==
    /\ fpc = "beautifulsoup"
    /\ LET it == scrape_iteration(settings, attempt, r)
           fetched == IF it.kind = "sleep" THEN MaxRetriesExceeded ELSE it
           bs == _try_beautifulsoup(settings, fetched)
       IN /\ responses' = Append(responses, r)
          /\ attempt' = attempt + 1
          /\ sleeps' = IF it.kind = "sleep" THEN Append(sleeps, it.delay) ELSE sleeps
          /\ IF it.kind = "sleep" /\ attempt + 1 < settings.request.max_retries
             THEN UNCHANGED <<fpc, static, outcome>>
             ELSE /\ static' = bs
                  /\ IF fallback(settings, bs.content)
                     THEN fpc' = "selenium" /\ UNCHANGED outcome
                     ELSE fpc' = "done" /\ outcome' = bs
    /\ UNCHANGED <<storeVars, raceVars, queueVars, loopVars, settings,
                   selenium_scraper, calls, rendering, metaVars, procVars, pureVars>>

\* _try_selenium, the page rendering as `rendered` tells; scrape_article
\* returns what it gives
Render(rendered) ==
    /\ fpc = "selenium"
    /\ LET r == _try_selenium(settings, selenium_scraper, rendered)
       IN /\ rendering' = [content |-> r.content, method |-> r.method,
                           error |-> r.error, called |-> r.called,
                           page |-> rendered]
          /\ calls' = IF r.called THEN Append(calls, "selenium") ELSE calls
          /\ outcome' = [content |-> r.content, method |-> r.method,
                         error |-> r.error]
    /\ fpc' = "done"
    /\ UNCHANGED <<storeVars, raceVars, queueVars, loopVars, settings,
                   selenium_scraper, attempt, sleeps, responses, static, metaVars, procVars, pureVars>>

\* ScraperManager.close between two calls: the driver is quit
Close ==
    /\ fpc \in {"idle", "done"}
    /\ selenium_scraper # Nothing
    /\ selenium_scraper.driver
    /\ selenium_scraper' = [selenium_scraper EXCEPT !.driver = FALSE]
    /\ UNCHANGED <<storeVars, raceVars, queueVars, loopVars, settings, fpc,
                   attempt, sleeps, responses, calls, static, rendering, outcome, metaVars, procVars, pureVars>>

NextFetch ==
    \/ ScrapeArticle
    \/ \E r \in Responses : Get(r)
    \/ \E rendered \in Renderings : Render(rendered)
    \/ Close

SpecFetch == InitFetch /\ [][NextFetch]_vars

\* the errors with which _try_beautifulsoup reports a document that was
\* fetched and failed validation
ValidationErrors ==
    {"Validation failed: Required elements not found, may need Selenium",
     "Content validation failed",
     "Extracted content is invalid (no title found)"}

StaticFailedValidation ==
    /\ static # NoOp
    /\ static.content = Nothing
    /\ static.error \in ValidationErrors

\* C8: when the static fetch fails content validation, the method of the
\* outcome depends on the fallback setting alone: selenium if it is enabled,
\* whether the rendering succeeds or fails, and beautifulsoup with a
\* failure if it is disabled.
C8_FallbackMethodIsDetermined ==
    (fpc = "done" /\ StaticFailedValidation)
    => IF settings.selenium.enabled_fallback
       THEN outcome.method = "selenium"
       ELSE outcome.method = "beautifulsoup" /\ outcome.content = Nothing

\* the static fetch failed validation, the fallback is enabled and the
\* rendering gave a valid document
C8_Witness ==
    /\ fpc = "done"
    /\ StaticFailedValidation
    /\ settings.selenium.enabled_fallback
    /\ outcome.method = "selenium"
    /\ outcome.content # Nothing

\* C9: the rendering fetcher is invoked only after the static fetcher, when
\* that gave no valid document and the fallback is enabled; the outcome is
\* the static one when static succeeds, the rendered one when only the
\* rendering succeeds, and the rendering's error when both fail.
C9_FallbackChain ==
    /\ rendering # NoOp
       => /\ static # NoOp
          /\ static.content = Nothing
          /\ settings.selenium.enabled_fallback
    /\ \A k \in 1..Len(calls) :
          calls[k] = "selenium" => (k = 2 /\ calls[1] = "beautifulsoup"
                                    /\ rendering # NoOp)
    /\ fpc = "done"
       => /\ static.content # Nothing
             => /\ outcome = static
                /\ outcome.method = "beautifulsoup"
                /\ calls = <<"beautifulsoup">>
                /\ rendering = NoOp
          /\ (rendering # NoOp /\ rendering.content # Nothing)
             => /\ outcome.content = rendering.content
                /\ outcome.method = "selenium"
                /\ outcome.error = None
          /\ (rendering # NoOp /\ rendering.content = Nothing)
             => /\ outcome.content = Nothing
                /\ outcome.error = rendering.error
                /\ outcome.error # None

\* the static fetcher failed after a retry and the rendering succeeded
C9_Witness ==
    /\ fpc = "done"
    /\ Len(responses) = 2
    /\ static.content = Nothing
    /\ rendering # NoOp
    /\ rendering.content # Nothing
    /\ calls = <<"beautifulsoup", "selenium">>
    /\ outcome.method = "selenium"

\* C10: when every attempt of the static fetcher times out, the fetch fails
\* after exactly max_retries attempts, having slept between consecutive
\* attempts delays that increase strictly.
C10_AllTimeoutsUseEveryAttempt ==
    ( /\ static # NoOp
      /\ settings.request.retry_delay >= 2
      /\ \A k \in 1..Len(responses) : responses[k].kind = "Timeout" )
    => /\ static.content = Nothing
       /\ Len(responses) = settings.request.max_retries
       /\ Len(sleeps) >= settings.request.max_retries - 1
       /\ \A i, j \in 1..Len(sleeps) : i < j => sleeps[i] < sleeps[j]

\* C11: an HTTP error response ends the static fetch at once: it is the
\* last attempt made, the fetch has failed with the HTTP error, and no
\* delay was slept after it, whatever max_retries is.
C11_HttpErrorIsTerminal ==
    \A k \in 1..Len(responses) :
        responses[k].kind = "HTTPError"
        => /\ k = Len(responses)
           /\ static # NoOp
           /\ static.content = Nothing
           /\ static.error = "HTTP error"
           /\ Len(sleeps) = k - 1

\* an HTTP error came on the second of three allowed attempts
C11_Witness ==
    /\ settings.request.max_retries = 3
    /\ Len(responses) = 2
    /\ responses[1].kind = "ConnectionError"
    /\ responses[2].kind = "HTTPError"
    /\ static # NoOp
    /\ Len(sleeps) = 1

-----------------------------------------------------------------------------
(* SpecMetadata: ScrapedMetadata.is_valid on the instances of the model    *)

\* the texts a field of ScrapedMetadata holds in the model
Texts == {None, "", " ", "  ", "Example", " Example "}

InitMetadata ==
    /\ StoreRest /\ RaceRest /\ QueueRest /\ LoopRest /\ FetchRest
    /\ MetaRest /\ ProcRest /\ PureRest

\* scraped.is_valid() is called
IsValid ==
    /\ valid' = IF is_valid(scraped) THEN "True" ELSE "False"
    /\ UNCHANGED <<storeVars, raceVars, queueVars, loopVars, fetchVars, scraped, procVars, pureVars>>

\* a field of the instance is assigned
SetField(field, text) ==
    /\ scraped' = [scraped EXCEPT ![field] = text]
    /\ valid' = None
    /\ UNCHANGED <<storeVars, raceVars, queueVars, loopVars, fetchVars, procVars, pureVars>>

NextMetadata ==
    \/ IsValid
    \/ \E field \in {"title", "description", "author"}, text \in Texts :
           SetField(field, text)

SpecMetadata == InitMetadata /\ [][NextMetadata]_vars

\* C12: is_valid() returns False if and only if the title is absent, empty
\* or made of whitespace only.
C12_IsValidIffTitleNotBlank ==
    valid # None
    => (valid = "False" <=> (scraped.title = None \/ Strip(scraped.title) = ""))


-----------------------------------------------------------------------------
(* SpecConsumer: Consumer.run with the queue client it is constructed      *)
(* with, each dequeued item going through _process_article, the fetchers   *)
(* and the store.                                                          *)

ItemOf(id) == CHOOSE i \in Items : i.id = id

\* an entry some other producer left in a list: a JSON object without the
\* priority key
Malformed == [id |-> "c1", url |-> <<"https://", "example.com/7">>]

\* what the lists hold when the consumer starts, at most two entries: the
\* same item up to twice in the high list, or one item there and in the low
\* list an item, an item with a priority that is none of the three, or the
\* malformed entry
ConsumerBacklogs ==
    {[queue_high |-> h, queue_low |-> <<>>] :
        h \in {<<>>, <<dumps(ItemOf("a1"))>>,
               <<dumps(ItemOf("a1")), dumps(ItemOf("a1"))>>}}
    \cup {[queue_high |-> h, queue_low |-> <<dumps(i)>>] :
             h \in {<<>>, <<dumps(ItemOf("a1"))>>},
             i \in {ItemOf("a4"), ItemOf("b2"), Malformed}}

\* the batch sizes the consumer is configured with
BatchSizes == {ConsumerConfig.batch_size, ConsumerConfig.batch_size + 1}

\* the web as the consumer meets it: a page with a title, a page whose
\* title is blank, or an error
ConsumerResponses ==
    {Exc("HTTPError"), Page(Soup("Example", None, None, None)),
     Page(Soup(" ", None, None, None))}
ConsumerRenderings ==
    {Exc("TimeoutException"), Page(Soup("Example", None, None, None)),
     Page(Soup(" ", None, None, None))}

\* Consumer(queue_manager, db, scraper_manager, settings): an empty
\* collection, a ScraperManager with the default request settings, whose
\* SeleniumScraper may have failed to start its driver
InitConsumer ==
    /\ StoreRest /\ RaceRest /\ LoopRest /\ MetaRest /\ PureRest
    /\ \E b \in ConsumerBacklogs :
          lanes = [q \in QueueNames |->
                      IF q = queue_high THEN b.queue_high
                      ELSE IF q = queue_low THEN b.queue_low ELSE <<>>]
    /\ redisUp = TRUE
    /\ enq = [q \in QueueNames |-> <<>>]
    /\ deq = [q \in QueueNames |-> <<>>]
    /\ lastOp = NoOp
    /\ npush = 0
    /\ \E e \in BOOLEAN :
          settings = [ScraperConfig EXCEPT !.selenium.enabled_fallback = e]
    /\ IF settings.selenium.enabled_fallback
       THEN \E draft \in {"consumer", "scrapers"}, driver \in BOOLEAN :
                selenium_scraper = SeleniumScraper(draft, driver)
       ELSE selenium_scraper = Nothing
    /\ fpc = "idle"
    /\ attempt = 0
    /\ sleeps = <<>>
    /\ responses = <<>>
    /\ calls = <<>>
    /\ static = NoOp
    /\ rendering = NoOp
    /\ outcome = NoOp
    /\ queue_manager = "any"
    /\ technical_default = TechnicalMetadata
    /\ inflight = Nothing
    /\ batch_size \in BatchSizes
    /\ dequeued = 0
    /\ plog = <<>>

ConsumerStep ==
    \/ LoopStep
    \/ \E r \in ConsumerResponses : Get(r)
    \/ \E rendered \in ConsumerRenderings : Render(rendered)
    \/ \E fail \in FailPoints : StoreOutcome(fail)
    \/ Except

NextConsumer ==
    \/ \E limit \in MaxArticleChoices : Run(limit)
    \/ LoopTop
    \/ ConsumeAndProcess
    \/ \E r \in ConsumerResponses : Get(r)
    \/ \E rendered \in ConsumerRenderings : Render(rendered)
    \/ \E fail \in FailPoints : StoreOutcome(fail)
    \/ Except
    \/ Shutdown
    \/ Stop
    \/ Interrupt

\* the loop is one thread; the web answers every request, if only by an
\* error or a timeout
SpecConsumer == InitConsumer /\ [][NextConsumer]_vars /\ WF_vars(ConsumerStep)

\* a title that is present and not empty once trimmed
NonBlank(title) == title # None /\ Strip(title) # ""

\* C13: invalid metadata is never a success. Whenever scrape_article has
\* returned a content, by the static or by the rendered path, the content's
\* title is non-empty after trimming; and every stored record with status
\* success has scraped metadata whose title is non-empty after trimming.
C13_SuccessHasTitle ==
    /\ (outcome # NoOp /\ outcome.content # Nothing)
       => NonBlank(outcome.content.value.title)
    /\ \A i \in 1..Len(collection) :
          collection[i].technical_metadata.status = "success"
          => /\ "scraped_metadata" \in DOMAIN collection[i]
             /\ NonBlank(collection[i].scraped_metadata)

\* the static fetch gave a page with a blank title, the rendered page had
\* a title, and the record was stored as a success of the rendered path
C13_Witness ==
    /\ static # NoOp
    /\ static.error = "Extracted content is invalid (no title found)"
    /\ outcome # NoOp /\ outcome.content # Nothing /\ outcome.method = "selenium"
    /\ \E i \in 1..Len(collection) :
          /\ collection[i].technical_metadata.status = "success"
          /\ collection[i].technical_metadata.scraping_method = "selenium"
          /\ collection[i].scraped_metadata = "Example"

\* C14: a valid item with no prior record, whose static fetch returns a
\* document with a title, leaves exactly one stored Article for the item's
\* url_hash, with status success, the static method, and the document's
\* title as scraped_metadata.title.
C14_OneCycleStoresSuccess ==
    \A k \in 1..Len(plog) :
        LET e == plog[k]
            h == _generate_url_hash(e.item.url)
        IN ( /\ e.done /\ e.raised = None /\ e.save = "True"
             /\ DOMAIN e.item = ArticleMetadataFields /\ validate(e.item)
             /\ Matching(e.before, h) = {}
             /\ e.content # Nothing /\ e.method = "beautifulsoup" )
           => /\ Cardinality(Matching(e.after, h)) = 1
              /\ \A i \in Matching(e.after, h) :
                    /\ e.after[i].technical_metadata.status = "success"
                    /\ e.after[i].technical_metadata.scraping_method = "beautifulsoup"
                    /\ e.after[i].scraped_metadata = e.content.value.title

\* the positions of the records stored for an item (records carry the
\* item's id)
RecordsOf(coll, item) == {i \in 1..Len(coll) : coll[i].id = item.id}

\* C15: when the store already holds a record with status success for the
\* item, processing the item skips it: no fetch is attempted, no upsert is
\* made, and the stored records are left as they were.
C15_SuccessRecordIsSkipped ==
    \A k \in 1..Len(plog) :
        LET e == plog[k]
        IN (\E i \in RecordsOf(e.before, e.item) :
                e.before[i].technical_metadata.status = "success")
           => /\ ~e.fetched
              /\ e.save = None
              /\ e.after = e.before

\* the processings among the first k of plog that were of the url of
\* plog[k] and came back from scrape_article, with a content or without
Attempts(k, ok) ==
    {j \in 1..k : /\ plog[j].item.url = plog[k].item.url
                  /\ plog[j].save # None
                  /\ (plog[j].content # Nothing) = ok}

\* C16: after a URL has been processed k times with a failed fetch and
\* never with a successful one, the store available, the record stored for
\* it has status failed and retry_count = k.
C16_RetryCountCountsFailures ==
    \A k \in 1..Len(plog) :
        LET e == plog[k]
        IN ( /\ e.save = "True" /\ e.content = Nothing /\ e.raised = None
             /\ Attempts(k, TRUE) = {}
             /\ \A j \in Attempts(k, FALSE) : plog[j].save = "True" )
           => /\ RecordsOf(e.after, e.item) # {}
              /\ \A i \in RecordsOf(e.after, e.item) :
                    /\ e.after[i].technical_metadata.status = "failed"
                    /\ e.after[i].technical_metadata.retry_count
                          = Cardinality(Attempts(k, FALSE))

\* C17: an exception raised while an item is processed is caught: it does
\* not leave run, it is counted as one failure, and the loop stays running
\* and goes on with the batch, whose next iteration dequeues the next item.
C17_ExceptionIsCaught ==
    [][(lpc = "except" /\ lpc' # "except" /\ ~interrupted')
       => /\ stats'.failed = stats.failed + 1
          /\ stats'.success = stats.success
          /\ stats'.total_processed = stats.total_processed
          /\ exc' = Nothing
          /\ running' = running
          /\ processed'
          /\ lpc' = IF batchLeft > 1 THEN "batch" ELSE "loop"]_vars

\* the first item of a batch of two raised, was counted as a failure, and
\* the second iteration of the same batch has dequeued the next item
C17_Witness ==
    /\ batch_size = 2 /\ batchLeft = 1
    /\ Len(plog) = 2
    /\ plog[1].raised # None /\ plog[1].done
    /\ lpc = "processing"
    /\ running
    /\ stats.failed = 1

\* C18: a cycle ends in the sleep of poll_interval exactly when it has
\* dequeued no item, and a new batch is begun only from the head of the
\* loop, reached at once after a cycle that dequeued an item and through
\* the sleep after one that dequeued none: two empty cycles in a row are
\* separated by a sleep.
C18_SleepsIffCycleWasEmpty ==
    [][/\ (lpc \in {"batch", "processing", "except"} /\ lpc' \in {"loop", "sleep"})
          => (lpc' = "sleep" <=> dequeued' = 0)
       /\ (lpc # "batch" /\ lpc' = "batch" /\ dequeued' = 0)
          => /\ lpc \in {"loop", "sleep"}
             /\ lpc = "loop" => (dequeued > 0 \/ lastDeq = NoOp)
      ]_vars

\* a cycle dequeued an item and was followed at once by a cycle that found
\* the lists empty, which is now sleeping
C18_Witness ==
    /\ lpc = "sleep"
    /\ dequeued = 0
    /\ Len(plog) = 1
    /\ running

\* C19: the loop reaches stopped only through the finally clause
\* (stopping), whatever ended it: there running is cleared, the final
\* statistics are printed and ScraperManager.close is called, which quits
\* the driver. Once stopped, nothing more is dequeued or processed.
C19_StopsThroughShutdown ==
    /\ [](lpc = "stopped"
           => /\ closed /\ ~running
              /\ selenium_scraper # Nothing => ~selenium_scraper.driver)
    /\ [](closed => lpc = "stopped")
    /\ [][/\ (lpc # "stopped" /\ lpc' = "stopped") => lpc = "shutdown"
          /\ (lpc \in InRun /\ lpc' \notin InRun)
                => /\ lpc' = "shutdown"
                   /\ \/ interrupted'
                      \/ ~running
                      \/ MaxReached
          /\ lpc = "stopped"
                => /\ lpc' = "stopped"
                   /\ lanes' = lanes /\ plog' = plog /\ collection' = collection
                   /\ stats' = stats]_vars

\* stop() ended the loop while an entry was still waiting: the driver the
\* rendering fetcher had started is quit and the entry is still there
C19_Witness ==
    /\ lpc = "stopped"
    /\ stopRequested /\ ~interrupted
    /\ closed
    /\ selenium_scraper # Nothing /\ ~selenium_scraper.driver
    /\ Len(plog) = 1 /\ plog[1].done
    /\ \E q \in QueueNames : lanes[q] # <<>>

\* C20: after stop() is called while the loop is running, the loop
\* eventually reaches stopped. The stop is observed at the head of the
\* loop only: the item being processed when stop() was called is processed
\* to completion (its save is attempted when it was fetched) unless an
\* interrupt comes, and from the head of the loop no new cycle begins.
C20_StopIsObservedAtNextCycle ==
    /\ stopRequested ~> (lpc = "stopped")
    /\ [](stopRequested => ~running)
    /\ [][(stopRequested /\ ~interrupted')
          => /\ lpc \in {"loop", "sleep"} => lpc' \in {lpc, "shutdown"}
             /\ lpc \in {"processing", "except"}
                   => lpc' \in {"processing", "except", "loop", "batch"}]_vars
    /\ [](\A k \in 1..Len(plog) :
             (plog[k].stop /\ lpc = "stopped" /\ ~interrupted)
             => /\ plog[k].done
                /\ plog[k].fetched => plog[k].save # None)

\* stop() was called while an item was being fetched; the item was stored
\* and the loop stopped with the next entry left in its list
C20_Witness ==
    /\ lpc = "stopped"
    /\ stopRequested /\ ~interrupted
    /\ Len(plog) = 1
    /\ plog[1].stop /\ plog[1].fetched /\ plog[1].save = "True" /\ plog[1].done
    /\ \E q \in QueueNames : lanes[q] # <<>>

\* whether an entry for the item waits in one of the lists
Waiting(lns, item) ==
    \E q \in QueueNames : \E i \in 1..Len(lns[q]) : lns[q][i] = dumps(item)

\* C21: an item whose save failed (the store raised, save returned False)
\* is not dropped: once its processing is over it is still in a list, or
\* again in one, or it has been processed again since.
C21_FailedSaveKeepsItem ==
    \A k \in 1..Len(plog) :
        (plog[k].save = "False" /\ plog[k].done)
        => \/ Waiting(lanes, plog[k].item)
           \/ \E j \in (k + 1)..Len(plog) : plog[j].item = plog[k].item

-----------------------------------------------------------------------------
(* SpecDecode: RedisManager.pop on lists that also hold entries written   *)
(* by other producers, which json.loads may not accept.                    *)

\* up to two entries per list, each the JSON of an item of the list's
\* priority or an undecodable text
DecodeBacklogs(q) ==
    LET entries == {dumps(i) : i \in {x \in ValidItems :
                                         get_queue_name(x.priority) = q}}
                   \cup {Undecodable}
    IN {<<>>} \cup {<<e>> : e \in entries}
       \cup {<<e[1], e[2]>> : e \in entries \X entries}

InitDecode ==
    /\ StoreRest /\ RaceRest /\ LoopRest /\ FetchRest /\ MetaRest /\ ProcRest /\ PureRest
    /\ lanes \in [QueueNames -> UNION {DecodeBacklogs(q) : q \in QueueNames}]
    /\ \A q \in QueueNames : lanes[q] \in DecodeBacklogs(q)
    /\ redisUp = TRUE
    /\ enq = [q \in QueueNames |-> <<>>]
    /\ deq = [q \in QueueNames |-> <<>>]
    /\ lastOp = NoOp
    /\ npush = 0

NextDecode ==
    \/ \E priority \in {None, "high", "medium", "low"}, timeout \in {0, 1} :
           Pop(priority, timeout)
    \/ RedisFlip

SpecDecode == InitDecode /\ [][NextDecode]_vars

\* C22: a pop that takes an undecodable entry off a list reports an error
\* to its caller, which an empty list does not give: it does not answer
\* None.
C22_DecodeFailureIsReported ==
    ( /\ lastOp.op = "pop" /\ lastOp.up /\ lastOp.priority # None
      /\ LET q == get_queue_name(lastOp.priority)
         IN /\ lastOp.before[q] # <<>>
            /\ ~decodable(rpop(lastOp.before[q]).value) )
    => lastOp.ret # Nothing

-----------------------------------------------------------------------------
(* SpecHash: the url_hash of Articles made from work items whose urls      *)
(* differ in their spelling only.                                          *)

\* urls by their parts, as urlparse gives them: port 0 is no port written,
\* the query is the list of its parameters
Urls ==
    [scheme : {"https", "HTTPS"}, host : {"example.com", "Example.COM"},
     port : {0, 443, 8080}, path : {"/a"},
     query : {<<>>, <<"a=1", "b=2">>, <<"b=2", "a=1">>},
     fragment : {"", "top"}]

\* the text of a url, as the work item carries it: scheme and the rest
PortText(port) ==
    CASE port = 0 -> "" [] port = 443 -> ":443" [] OTHER -> ":8080"
QueryText(query) ==
    IF query = <<>> THEN "" ELSE "?" \o query[1] \o "&" \o query[2]
Written(u) ==
    <<u.scheme \o "://",
      u.host \o PortText(u.port) \o u.path \o QueryText(u.query)
        \o (IF u.fragment = "" THEN "" ELSE "#" \o u.fragment)>>

\* sorted(query_params) for the queries in use
Sorted(query) == IF query = <<"b=2", "a=1">> THEN <<"a=1", "b=2">> ELSE query

\* normalize_url: scheme and host in lower case, the port kept unless it
\* is the scheme's default, the query parameters sorted, no fragment
normalize_url(u) ==
    LET scheme == Lower(u.scheme)
        default == (scheme = "http" /\ u.port = 80)
                   \/ (scheme = "https" /\ u.port = 443)
    IN Written([scheme |-> scheme, host |-> Lower(u.host),
                port |-> IF u.port # 0 /\ ~default THEN u.port ELSE 0,
                path |-> u.path, query |-> Sorted(u.query), fragment |-> ""])

\* the work item with a url
ItemWith(u) == [id |-> "a1", url |-> Written(u), priority |-> "high"]

InitHash ==
    /\ StoreRest /\ RaceRest /\ QueueRest /\ LoopRest /\ FetchRest /\ MetaRest
    /\ ProcRest
    /\ given \in Urls \X Urls
    /\ returned = NoOp

\* Article.from_metadata on each of the two items: the url_hash each
\* Article gets from __post_init__
MakeArticles ==
    /\ returned = NoOp
    /\ returned' = [k \in {1, 2} |->
                       from_metadata(ItemWith(given[k]), TechnicalMetadata).url_hash]
    /\ UNCHANGED <<storeVars, raceVars, queueVars, loopVars, fetchVars, metaVars,
                   procVars, given>>

NextHash == MakeArticles

SpecHash == InitHash /\ [][NextHash]_vars

\* C23: two work items whose urls are equal after normalization get the
\* same url_hash.
C23_HashOfNormalizedUrl ==
    (returned # NoOp /\ normalize_url(given[1]) = normalize_url(given[2]))
    => returned[1] = returned[2]

-----------------------------------------------------------------------------
(* SpecExtract: MetadataExtractor.extract on documents with and without    *)
(* each of the elements it looks for.                                      *)

\* contents of the keywords meta, by their comma-separated pieces
KeywordContents ==
    {<<"">>, <<" ">>, <<"a">>, <<" a ", "b">>, <<"a", "">>, <<"a", " ", "b">>}

\* documents whose elements are each present with a text or absent; the
\* keywords meta is present in ExtractDocs' second part only
TitleDocs ==
    [title : {None, "", " ", "Title"}, og_title : {None, "OG title"},
     twitter_title : {None, "Twitter title"},
     description : {None, "Description"}, og_description : {None, "OG description"},
     author : {None, "Author"}]
ExtractDocs ==
    TitleDocs
    \cup {[k \in DOMAIN d \cup {"keywords"} |->
              IF k = "keywords" THEN kw ELSE d[k]] :
             d \in {x \in TitleDocs : x.description = None /\ x.author = None},
             kw \in KeywordContents}

InitExtract ==
    /\ StoreRest /\ RaceRest /\ QueueRest /\ LoopRest /\ FetchRest /\ MetaRest
    /\ ProcRest
    /\ given \in ExtractDocs
    /\ returned = NoOp

\* extract(soup): the document is read, not written
Extract ==
    /\ returned = NoOp
    /\ returned' = extract(given)
    /\ UNCHANGED <<storeVars, raceVars, queueVars, loopVars, fetchVars, metaVars,
                   procVars, given>>

NextExtract == Extract

SpecExtract == InitExtract /\ [][NextExtract]_vars

\* C24: the extracted keywords are the pieces of the keywords content,
\* each trimmed, in their order, without the empty ones: the list holds no
\* empty string.
C24_KeywordsHaveNoEmptyPiece ==
    returned # NoOp
    => \A k \in 1..Len(returned.keywords) : returned.keywords[k] # ""

\* the first of the candidates that is neither absent nor empty, None if
\* there is none
FirstOf(candidates) ==
    IF \E k \in 1..Len(candidates) : Truthy(candidates[k])
    THEN candidates[Min({k \in 1..Len(candidates) : Truthy(candidates[k])})]
    ELSE None

\* the text of an element once trimmed, None for an absent element
Trimmed(text) == IF text = None THEN None ELSE Strip(text)

\* C25: each field is the first non-empty candidate of its ordered list:
\* the title is the <title> text if non-empty, otherwise the Open-Graph
\* title, otherwise the Twitter-card title, otherwise absent; likewise the
\* description, from the description and og:description metas.
C25_FirstNonEmptyCandidate ==
    returned # NoOp
    => /\ returned.title
            = FirstOf(<<Trimmed(given.title), Trimmed(given.og_title),
                        Trimmed(given.twitter_title)>>)
       /\ returned.description
            = FirstOf(<<Trimmed(given.description),
                        Trimmed(given.og_description)>>)

\* a blank <title> and no Open-Graph title: the Twitter-card title is taken
C25_Witness ==
    /\ returned # NoOp
    /\ given.title = " " /\ given.og_title = None
    /\ given.twitter_title = "Twitter title"
    /\ returned.title = "Twitter title"

\* a document with none of the elements extract looks for
Bare(soup) ==
    /\ "keywords" \notin DOMAIN soup
    /\ \A k \in DOMAIN soup : soup[k] = None

C27_UninitializedDriverIsAFailure ==
    /\ [][(/\ fpc = "selenium" /\ fpc' = "done"
           /\ selenium_scraper # Nothing /\ ~selenium_scraper.driver)
          => /\ outcome' = [content |-> Nothing, method |-> "selenium",
                            error |-> NotInitialized]
             /\ lpc' = lpc /\ running' = running /\ exc' = exc]_vars
    /\ [][(/\ lpc = "processing" /\ fpc = "done"
           /\ outcome.error = NotInitialized
           /\ lpc' # lpc /\ ~interrupted')
          => /\ lpc' \in InRun /\ running' = running /\ exc' = Nothing
             /\ stats'.failed = stats.failed + 1
             /\ Last(plog').method = "selenium"
             /\ Last(plog').tm.status = "failed"]_vars

\* two items in a row met the driver that never started, and the loop is
\* still running
C27_Witness ==
    /\ Len(plog) = 2
    /\ \A k \in 1..2 : /\ plog[k].done
                        /\ plog[k].method = "selenium"
                        /\ plog[k].tm.error_message = NotInitialized
    /\ selenium_scraper # Nothing /\ ~selenium_scraper.driver
    /\ running /\ lpc \in InRun

C29_InvalidRenderingIsNotSuccess ==
    (/\ fpc = "done" /\ rendering # NoOp
     /\ outcome.method = "selenium" /\ outcome.content # Nothing)
    => /\ rendering.page.kind = "page"
       /\ validate_soup(rendering.page.soup, settings.selenium.required_elements)

\* C30: while every attempt of the static fetcher meets a connection
\* failure, it makes at most max_retries attempts, after the failed attempt
\* numbered k from 0 it sleeps retry_delay^k before the next one (1 first,
\* then retry_delay times the delay before), and after the last attempt it
\* returns the connection error without sleeping.
C30_ConnectionErrorBackoff ==
    ( /\ fpc \in {"beautifulsoup", "selenium", "done"}
      /\ \A k \in 1..Len(responses) : responses[k].kind = "ConnectionError" )
    => /\ Len(responses) <= settings.request.max_retries
       /\ Len(sleeps) = IF static = NoOp THEN Len(responses)
                        ELSE settings.request.max_retries - 1
       /\ \A k \in 1..Len(sleeps) :
              sleeps[k] = IF k = 1 THEN 1
                          ELSE sleeps[k - 1] * settings.request.retry_delay
       /\ static # NoOp
          => /\ Len(responses) = settings.request.max_retries
             /\ static.content = Nothing
             /\ static.error = "Connection error"

\* three connection failures with three attempts allowed and base 2: the
\* fetch has failed having slept 1 and 2
C30_Witness ==
    /\ settings.request.max_retries = 3
    /\ settings.request.retry_delay = 2
    /\ Len(responses) = 3
    /\ \A k \in 1..3 : responses[k].kind = "ConnectionError"
    /\ static # NoOp
    /\ sleeps = <<1, 2>>

-----------------------------------------------------------------------------
(* The technical metadata of Articles, in the consumer loop                *)

\* error_message is present exactly when status is failed
ErrorIffFailed(tm) == (tm.error_message # None) <=> (tm.status = "failed")

\* C31: after any sequence of mark_success and mark_failed, and in every
\* stored record, error_message is present if and only if status is failed.
C31_ErrorMessageIffFailed ==
    /\ ErrorIffFailed(technical_default)
    /\ \A k \in 1..Len(plog) : ErrorIffFailed(plog[k].tm)
    /\ \A k \in 1..Len(collection) :
           ErrorIffFailed(collection[k].technical_metadata)

\* a failure, then a success that was stored: the record has status
\* success and no error_message
C31_Witness ==
    /\ Len(plog) = 2
    /\ plog[1].tm.status = "failed" /\ plog[1].tm.error_message # None
    /\ plog[2].done /\ plog[2].tm.status = "success"
    /\ \E k \in 1..Len(collection) :
           /\ collection[k].technical_metadata.status = "success"
           /\ collection[k].technical_metadata.error_message = None

-----------------------------------------------------------------------------
(* SpecArticle: two Articles and the TechnicalMetadata instances they      *)
(* refer to, under mark_success and mark_failed. An Article made by        *)
(* from_metadata refers to the instance that is the default of the         *)
(* dataclass field; one constructed with technical_metadata=... refers to  *)
(* the instance it was given.                                              *)

\* a hash an Article is constructed with
PresetHash == "sha256:preset"

\* the technical metadata Article k refers to, in heap r
TmOf(r, k) == r.heap[r.ref[k]]

\* the url_hash of Article k wherever it is kept: in its technical
\* metadata, and in the attribute __post_init__ sets
UrlHashes(r, k) ==
    <<TmOf(r, k).url_hash,
      IF "url_hash" \in DOMAIN r.arts[k] THEN r.arts[k].url_hash ELSE None>>

\* the work item fields of Article k
WorkItemFields(r, k) == [f \in ArticleMetadataFields |-> r.arts[k][f]]

InitArticle ==
    /\ StoreRest /\ RaceRest /\ QueueRest /\ LoopRest /\ FetchRest /\ MetaRest
    /\ ProcRest
    /\ \E i1, i2 \in ValidItems, h \in {"", PresetHash} :
          /\ i1 # i2
          /\ given = [items |-> <<i1, i2>>, preset |-> h]
    /\ returned = NoOp

\* the first Article is constructed with a TechnicalMetadata holding the
\* preset hash, or by from_metadata if there is none; the second by
\* from_metadata
Construct ==
    /\ returned = NoOp
    /\ LET own == [TechnicalMetadata EXCEPT !.url_hash = given.preset]
           first == IF given.preset = "" THEN "default" ELSE "own"
           heap == [default |-> TechnicalMetadata, own |-> own]
       IN returned' = [arts |-> <<from_metadata(given.items[1], heap[first]),
                                  from_metadata(given.items[2], heap.default)>>,
                       ref |-> <<first, "default">>,
                       heap |-> heap,
                       last |-> 0]
    /\ UNCHANGED <<storeVars, raceVars, queueVars, loopVars, fetchVars, metaVars,
                   procVars, given>>

\* Article k . mark_success(content, method, processing_time)
MarkSuccess(k, content, method) ==
    /\ returned # NoOp
    /\ returned.heap.default.retry_count + returned.heap.own.retry_count < MaxMarks
    /\ returned' = [returned EXCEPT
                       !.arts[k].scraped_metadata = Got(content),
                       !.heap[returned.ref[k]] = mark_success(@, method),
                       !.last = k]
    /\ UNCHANGED <<storeVars, raceVars, queueVars, loopVars, fetchVars, metaVars,
                   procVars, given>>

\* Article k . mark_failed(error_message, method)
MarkFailed(k, error_message, method) ==
    /\ returned # NoOp
    /\ returned.heap.default.retry_count + returned.heap.own.retry_count < MaxMarks
    /\ returned' = [returned EXCEPT
                       !.heap[returned.ref[k]] = mark_failed(@, error_message, method),
                       !.last = k]
    /\ UNCHANGED <<storeVars, raceVars, queueVars, loopVars, fetchVars, metaVars,
                   procVars, given>>

NextArticle ==
    \/ Construct
    \/ \E k \in {1, 2}, method \in {"beautifulsoup", "selenium"} :
           MarkSuccess(k, "Example", method)
    \/ \E k \in {1, 2}, method \in {"beautifulsoup", "selenium"},
          error_message \in {"HTTP error", "Unknown error"} :
           MarkFailed(k, error_message, method)

SpecArticle == InitArticle /\ [][NextArticle]_vars

\* C32: once an Article is constructed its url_hash never changes:
\* mark_success and mark_failed leave the url_hash and the work item fields
\* (id, url, priority) as they were, and an Article constructed with a
\* non-empty url_hash keeps that hash, none being generated.
C32_UrlHashIsStable ==
    /\ [][(returned # NoOp)
          => \A k \in {1, 2} :
                /\ UrlHashes(returned', k) = UrlHashes(returned, k)
                /\ WorkItemFields(returned', k) = WorkItemFields(returned, k)]_vars
    /\ []((returned # NoOp /\ given.preset # "")
          => UrlHashes(returned, 1) = <<given.preset, None>>)

\* the Article constructed with a hash was marked failed and kept it
C32_Witness ==
    /\ returned # NoOp /\ given.preset = PresetHash
    /\ returned.last = 1
    /\ TmOf(returned, 1).status = "failed"
    /\ TmOf(returned, 1).url_hash = PresetHash

-----------------------------------------------------------------------------
(* The counters of the consumer loop                                       *)

\* the processings that reached `self.stats['total_processed'] += 1`: those
\* that returned, and those that raised KeyError on the statement after it
Counted ==
    {k \in 1..Len(plog) : plog[k].raised # "TypeError"
                          /\ (plog[k].done \/ plog[k].raised = "KeyError")}

Saved(k) == {j \in 1..k : plog[j].save = "True"}

\* C34: work items with different urls get different url_hash values in
\* their technical metadata, so that after items of n pairwise distinct urls
\* were processed and saved the store holds n records, with n distinct
\* url_hash values.
C34_DistinctUrlsDistinctRecords ==
    \A k \in 1..Len(plog) :
        (plog[k].save = "True" /\ \A j \in Saved(k) : validate(plog[j].item))
        => LET n == Cardinality({plog[j].item.url : j \in Saved(k)})
               coll == plog[k].after
           IN /\ Len(coll) = n
              /\ Cardinality({coll[i].technical_metadata.url_hash :
                                 i \in 1..Len(coll)}) = n

\* C35: an Article built from a work item starts with technical metadata
\* of its own (status pending, retry_count 0, no error_message, no
\* scraping_method), and marking one Article success or failed leaves the
\* technical metadata of every other Article as it was.
C35_OwnTechnicalMetadata ==
    /\ []((returned # NoOp /\ returned.last = 0)
          => /\ TmOf(returned, 2).status = "pending"
             /\ TmOf(returned, 2).retry_count = 0
             /\ TmOf(returned, 2).error_message = None
             /\ TmOf(returned, 2).scraping_method = None)
    /\ [][(returned # NoOp /\ returned' # returned)
          => \A k \in {1, 2} :
                k # returned'.last => TmOf(returned', k) = TmOf(returned, k)]_vars

\* C36: when run is given a limit n > 0, the loop never processes more
\* than n items: total_processed <= n in every state, whatever the batch
\* size.
C36_NeverMoreThanMaxArticles ==
    (lpc # "idle" /\ max_articles > 0) => stats.total_processed <= max_articles

\* C37: each dequeued item is counted once: it adds one to
\* total_processed and to at most one of success and failed, so that
\* success + failed <= total_processed in every state of the loop.
C37_CountedOnce ==
    /\ stats.success + stats.failed <= stats.total_processed
    /\ (lpc \in {"loop", "batch", "sleep"}) => stats.total_processed = Len(plog)

-----------------------------------------------------------------------------
(* SpecDelete: MongoDB.save racing with delete_by_id and clear_all of      *)
(* another client of the collection.                                       *)

\* collection.delete_one({'id': article_id}): the first document with the
\* id is removed, if there is one
delete_one(coll, article_id) ==
    LET found == {i \in 1..Len(coll) : coll[i].id = article_id}
    IN IF found = {} THEN coll
       ELSE [i \in 1..(Len(coll) - 1) |->
                IF i < Min(found) THEN coll[i] ELSE coll[i + 1]]

\* collection.delete_many({})
delete_many(coll) == <<>>

\* MongoDB.delete_by_id
DeleteById(article_id) ==
    /\ collection' = delete_one(collection, article_id)
    /\ UNCHANGED <<saveLog, raceVars, queueVars, loopVars, fetchVars, metaVars,
                   procVars, pureVars>>

\* MongoDB.clear_all
ClearAll ==
    /\ collection' = delete_many(collection)
    /\ UNCHANGED <<saveLog, raceVars, queueVars, loopVars, fetchVars, metaVars,
                   procVars, pureVars>>

NextDelete ==
    \/ \E w \in Workers, article \in Articles : SaveBegin(w, article)
    \/ \E w \in Workers : InsertOne(w)
    \/ \E w \in Workers : ReplaceOne(w)
    \/ \E w \in Workers : StoreError(w)
    \/ \E article_id \in {a.id : a \in Articles} : DeleteById(article_id)
    \/ ClearAll

SpecDelete == InitRace /\ [][NextDelete]_vars

\* C38: when save returns True, the collection holds, at that moment, a
\* record with the article's url_hash, also when a delete_by_id or a
\* clear_all of another client ran between the insert_one that failed and
\* the replace_one.
C38_TrueMeansStored ==
    [][\A w \in Workers :
          (wret[w] # "True" /\ wret'[w] = "True")
          => Matching(collection', wart[w].url_hash) # {}]_vars

-----------------------------------------------------------------------------
(* Items in processing when the consumer loop ends                         *)

\* C39: with the store available, no dequeued item is lost at shutdown:
\* when the loop has stopped, by the limit, by stop() or by an interrupt
\* during processing, each valid item that was dequeued has had its outcome
\* saved or is in one of the lists.
C39_NothingLostAtShutdown ==
    (lpc = "stopped" /\ \A k \in 1..Len(plog) : plog[k].save # "False")
    => \A k \in 1..Len(plog) :
          (plog[k].raised = None /\ validate(plog[k].item))
          => \/ plog[k].save = "True"
             \/ plog[k].existing = "success"
             \/ Waiting(lanes, plog[k].item)

=========================================================================
